---- MODULE Spec2Model ----
(***************************************************************************)
(* RegRadar: the retrieval cache of WebTools (src/tools/web_tools.py), the *)
(* parameter extraction, intent test and report prompt of RegRadarAgent    *)
(* (src/agents/reg_radar.py), the completion stream (src/tools/llm.py),    *)
(* the memory store (src/tools/memory_tools.py) and a chat turn of         *)
(* UIHandler (src/agents/ui_handler.py) from update to update, with the    *)
(* user id of each session and the save thread a turn leaves behind.       *)
(*                                                                         *)
(* Text is a sequence of characters, a character is a one-element name.    *)
(* Python's None is the value None, a key absent from a dict is a key      *)
(* outside the DOMAIN of the function that models the dict.                *)
(***************************************************************************)
EXTENDS Integers, Sequences, FiniteSets, TLC

\* ------------------------------------------------------------------------
\* Bounds of the model
\* ------------------------------------------------------------------------

\* longest industry text the fingerprint specification draws
MaxLen == 2

\* most items one crawl response carries in the single-fill specification
MaxItems == 2

\* most retrievals started in one behaviour of the cache specifications
MaxCalls == 2

\* ------------------------------------------------------------------------
\* Text and str.lower()
\* ------------------------------------------------------------------------

None == "None"

UpperLetters == <<"A", "B", "C", "D", "E", "F", "G", "H", "I", "J", "K", "L", "M",
                  "N", "O", "P", "Q", "R", "S", "T", "U", "V", "W", "X", "Y", "Z">>

LowerLetters == <<"a", "b", "c", "d", "e", "f", "g", "h", "i", "j", "k", "l", "m",
                  "n", "o", "p", "q", "r", "s", "t", "u", "v", "w", "x", "y", "z">>

\* GREEK CAPITAL LETTER SIGMA, GREEK SMALL LETTER SIGMA, GREEK SMALL LETTER FINAL SIGMA
SIGMA == "SIGMA"
sigma == "sigma"
fsigma == "fsigma"

IsUpper(c) == c = SIGMA \/ \E i \in 1..Len(UpperLetters) : UpperLetters[i] = c

IsLower(c) == c \in {sigma, fsigma} \/ \E i \in 1..Len(LowerLetters) : LowerLetters[i] = c

\* Unicode property Cased
IsCased(c) == IsUpper(c) \/ IsLower(c)

\* Unicode property Case_Ignorable; the colon is MidLetter, hence case-ignorable
IsCaseIgnorable(c) == c = ":"

\* the lowercase mapping of one character out of context
LowerChar(c) ==
    IF c = SIGMA THEN sigma
    ELSE IF \E i \in 1..Len(UpperLetters) : UpperLetters[i] = c
         THEN LowerLetters[CHOOSE i \in 1..Len(UpperLetters) : UpperLetters[i] = c]
         ELSE c

\* SIGMA at position i of s stands in the Final_Sigma context: a cased character
\* before it and no cased character after it, case-ignorable characters skipped
FinalSigma(s, i) ==
    /\ \E j \in 1..(i - 1) :
          /\ IsCased(s[j])
          /\ \A k \in (j + 1)..(i - 1) : IsCaseIgnorable(s[k])
    /\ ~ \E j \in (i + 1)..Len(s) :
          /\ IsCased(s[j])
          /\ \A k \in (i + 1)..(j - 1) : IsCaseIgnorable(s[k])

\* str.lower() on a whole text
Lower(s) ==
    [i \in 1..Len(s) |->
        IF s[i] = SIGMA /\ FinalSigma(s, i) THEN fsigma ELSE LowerChar(s[i])]

\* hashlib.md5(...).hexdigest(): the digest of a text, taken to be free of collisions
Md5HexDigest(s) == <<"md5", s>>

\* a key text that leaves the region out
KeyStringNoRegion(industry, region, keywords) ==
    Lower(industry \o <<":">> \o keywords)

\* the text f"{industry}:{region}:{keywords}".lower() that is hashed
KeyString(industry, region, keywords) ==
    Lower(industry \o <<":">> \o region \o <<":">> \o keywords)

\* WebTools.generate_cache_key
generate_cache_key(industry, region, keywords) ==
    Md5HexDigest(KeyString(industry, region, keywords))

\* two characters that differ at most in letter case (simple case folding)
FoldChar(c) == IF c = fsigma THEN sigma ELSE LowerChar(c)

\* two texts equal case-insensitively
EqualIgnoringCase(s, t) ==
    /\ Len(s) = Len(t)
    /\ \A i \in 1..Len(s) : FoldChar(s[i]) = FoldChar(t[i])


\* ------------------------------------------------------------------------
\* Configuration (src/config/settings.py) and the queries drawn by the model
\* ------------------------------------------------------------------------

US == <<"U", "S">>
EU == <<"E", "U">>
Japan == <<"J", "a", "p", "a", "n">>

\* region texts that are no key of REGULATORY_SOURCES
eu == <<"e", "u">>
Atlantis == <<"A", "t", "l", "a", "n", "t", "i", "s">>

AI == <<"A", "I">>
ai == <<"a", "i">>

Source(name, url) == [name |-> name, url |-> url]

\* REGULATORY_SOURCES: region -> the ordered (source name, url) pairs of the dict
REGULATORY_SOURCES ==
    (US :> << Source("SEC", "sec.gov"),
              Source("Federal Register", "federalregister.gov"),
              Source("Federal Reserve Board", "federalreserve.gov"),
              Source("CFTC", "cftc.gov"),
              Source("FDIC", "fdic.gov"),
              Source("FINRA", "finra.org"),
              Source("FDA", "fda.gov"),
              Source("FTC", "ftc.gov"),
              Source("NIST AI RMF", "nist.gov"),
              Source("FCC", "fcc.gov") >>)
    @@ (EU :> << Source("ESMA", "esma.europa.eu"),
                 Source("European Parliament News", "europarl.europa.eu"),
                 Source("EBA", "eba.europa.eu"),
                 Source("EIOPA", "eiopa.europa.eu"),
                 Source("ECB", "ecb.europa.eu"),
                 Source("EU AI Act", "artificialintelligenceact.eu") >>)
    @@ (Japan :> << Source("MIC", "soumu.go.jp"),
                    Source("Japan AI Principles", "cas.go.jp") >>)

\* SOURCE_FULL_NAMES.get(source_name, source_name)
SOURCE_FULL_NAMES ==
    [n \in {"SEC", "Federal Register", "Federal Reserve Board", "ESMA",
            "European Parliament News", "EBA", "MIC", "Japan AI Principles"} |->
        CASE n = "SEC" -> "U.S. Securities and Exchange Commission"
          [] n = "ESMA" -> "European Securities and Markets Authority"
          [] n = "EBA" -> "European Banking Authority"
          [] n = "MIC" -> "Ministry of Internal Affairs and Communications (Japan)"
          [] n = "Japan AI Principles" -> "Japan Social Principles of Human-Centric AI"
          [] OTHER -> n]

FullName(source_name) ==
    IF source_name \in DOMAIN SOURCE_FULL_NAMES
    THEN SOURCE_FULL_NAMES[source_name] ELSE source_name

\* "limit to 3 sources": the [:3] of the crawl loop
SourceLimit == 3

\* the [:1500] of the content excerpt
ContentLimit == 1500

Query(industry, region, keywords) ==
    [industry |-> industry, region |-> region, keywords |-> keywords]

\* the queries of the cache specifications: two spell one fingerprint
Queries == {Query(AI, EU, <<>>), Query(ai, eu, <<>>), Query(AI, US, <<>>)}

\* the queries of the single-fill specification
FillQueries == {Query(AI, r, <<>>) : r \in {US, EU, Japan, eu, Atlantis}}

\* ------------------------------------------------------------------------
\* The search-and-crawl service (tavily_client) as the code sees it
\* ------------------------------------------------------------------------

\* a page body, by name and length in characters
Body(name, len) == [text |-> name, len |-> len]

EmptyBody == Body("", 0)

\* body[:n]
Slice(body, n) ==
    IF body.len <= n THEN body ELSE Body(body.text, n)

\* None where a page body is expected
NoneBody == Body(None, 0)

\* a call that raises (timeout, service error)
Raise == [raised |-> TRUE, results |-> <<>>]

\* a call that returns {"results": items}
Returns(items) == [raised |-> FALSE, results |-> items]

\* an item of a crawl response: a dict with url, title, raw_content
CrawlItem(url, title, raw_content) ==
    [url |-> url, title |-> title, raw_content |-> raw_content]

GoodPage == CrawlItem("page", "Press release", Body("release", 4000))

\* a page the service returns with "raw_content": null
NullPage == CrawlItem("page2", "Press release", NoneBody)

CrawlItems == {GoodPage, NullPage}

\* an item of a search response: a dict with url, title, content
SearchItem(url, title, content) ==
    [url |-> url, title |-> title, content |-> content]

GoodHit == SearchItem("hit", "Update", Body("snippet", 300))

\* a hit whose content is longer than the excerpt limit of the crawl results
LongHit == SearchItem("hit2", "Update", Body("article", 2000))

SearchItems == {GoodHit, LongHit}

\* all lists of at most n items of S
ListsUpTo(S, n) == UNION {[1..k -> S] : k \in 0..n}

\* what one call may give back: an exception or a result list
Responses(S, n) == {Raise} \cup {Returns(l) : l \in ListsUpTo(S, n)}

\* dict.get(key, default)
Get(d, key, default) == IF key \in DOMAIN d THEN d[key] ELSE default

\* the dict appended for one crawl item (lines 63-73)
FormatCrawlItem(source_name, url, item) ==
    LET title == Get(item, "title", None)
    IN  [source |-> source_name,
         url |-> Get(item, "url", url),
         title |-> IF title \in {None, "", "No Title..."}
                   THEN FullName(source_name) ELSE title,
         content |-> Slice(Get(item, "raw_content", EmptyBody), ContentLimit)]

\* processing the item raises: None[:1500] is a TypeError
CrawlItemRaises(item) == Get(item, "raw_content", EmptyBody) = NoneBody

\* the for loop of _get_crawl_results: the exception of an item ends the loop
\* and the except clause keeps what was appended before it
RECURSIVE CrawlLoop(_, _, _, _)
CrawlLoop(source_name, url, items, results) ==
    IF items = <<>> THEN results
    ELSE IF CrawlItemRaises(Head(items)) THEN results
    ELSE CrawlLoop(source_name, url, Tail(items),
                   Append(results, FormatCrawlItem(source_name, url, Head(items))))

\* WebTools._get_crawl_results, given what tavily_client.crawl did
get_crawl_results(source_name, url, resp) ==
    IF resp.raised THEN <<>> ELSE CrawlLoop(source_name, url, resp.results, <<>>)

\* the dict appended for one search item (lines 90-97)
FormatSearchItem(item) ==
    [source |-> "Web Search",
     url |-> Get(item, "url", ""),
     title |-> Get(item, "title", ""),
     content |-> Get(item, "content", EmptyBody)]

\* WebTools._get_search_results, given what tavily_client.search did
get_search_results(resp) ==
    IF resp.raised THEN <<>>
    ELSE [i \in 1..Len(resp.results) |-> FormatSearchItem(resp.results[i])]

\* list(urls_to_crawl.items())[:3]
FirstSources(catalog) ==
    SubSeq(catalog, 1, IF Len(catalog) < SourceLimit THEN Len(catalog) ELSE SourceLimit)

\* a lookup that falls back to another catalog than US
UrlsToCrawlNoFallbackOrder(region) ==
    IF region \in DOMAIN REGULATORY_SOURCES
    THEN REGULATORY_SOURCES[region] ELSE REGULATORY_SOURCES[EU]

\* REGULATORY_SOURCES.get(region, REGULATORY_SOURCES["US"])
UrlsToCrawl(region) ==
    IF region \in DOMAIN REGULATORY_SOURCES
    THEN REGULATORY_SOURCES[region] ELSE REGULATORY_SOURCES[US]

\* an aggregate that counts the distinct urls of its results
AggregateCountsUrls(all_results) ==
    [results |-> all_results,
     total_found |-> Cardinality({all_results[i].url : i \in 1..Len(all_results)})]

\* an aggregate that was built before the last result was appended
AggregateDropsLast(all_results) ==
    [results |-> SubSeq(all_results, 1, Len(all_results) - 1),
     total_found |-> Len(all_results)]

\* {"results": all_results, "total_found": len(all_results)}
Aggregate(all_results) ==
    [results |-> all_results, total_found |-> Len(all_results)]

\* a cache test that never finds the fingerprint
CacheNeverHits(cache, key) == FALSE

\* a cache test that passes over an entry without results
CacheHitsNonEmpty(cache, key) == key \in DOMAIN cache /\ cache[key].total_found > 0

\* cache_key in self.cached_searches
CacheHit(cache, key) == key \in DOMAIN cache


\* ------------------------------------------------------------------------
\* State
\* ------------------------------------------------------------------------

\* the two event listeners that run streaming_chatbot (msg.submit, submit.click):
\* each runs one turn at a time, both share the WebTools of the one UIHandler
Turns == {"submit_event", "click_event"}

VARIABLES
    cached_searches,  \* WebTools.cached_searches: fingerprint -> aggregate
    pc,               \* per turn: where streaming_chatbot / crawl_regulatory_sites stands
    params,           \* per turn: the (industry, region, keywords) of the retrieval
    src_idx,          \* per turn: how many sources the crawl loop has done
    all_results,      \* per turn: the local list all_results
    crawl_results,    \* per turn: what crawl_regulatory_sites returned
    calls,            \* per turn: the crawl and search calls issued, with their responses
    history,          \* the retrievals that returned: params and aggregate
    ncalls,           \* retrievals started so far
    tuple1,           \* fingerprint check: a drawn (industry, region, keywords)
    tuple2,           \* fingerprint check: tuple1 with one field changed
    key1,             \* generate_cache_key of tuple1
    key2,             \* generate_cache_key of tuple2
    kpc,              \* fingerprint check: "drawn" or "hashed"
    message,          \* extract_parameters: the phrases the lowercased message contains
    response,         \* extract_parameters: what call_llm returned
    extracted,        \* extract_parameters: how it ended and the params it returned
    epc,              \* extract_parameters: "start" or "done"
    tpc,              \* streaming_chatbot: the update the turn waits at, or how it ended
    user_message,     \* streaming_chatbot: the message of the turn
    chat,             \* streaming_chatbot: what the turn has put on history, last update
    interactive,      \* streaming_chatbot: gr.update(interactive=...) of the last update
    steps,            \* the turn's calls of services and tools, in call order
    tparams,          \* streaming_chatbot: params
    results_key,      \* streaming_chatbot: crawl_results is the object stored under this
    memory_results,   \* streaming_chatbot: memory_results
    prompt,           \* the prompt the turn sent to stream_llm
    completion,       \* what the completion service does for the turn's stream
    fragments,        \* the fragments stream_llm yields in this turn
    delivered,        \* how many of them the loop has taken
    streaming_content,\* streaming_chatbot: streaming_content
    created,          \* what the turn's save_to_memory was handed and what it added
    nturns,           \* turns started so far
    intent_reply,     \* is_regulatory_query: what call_llm returned for the intent prompt
    is_regulatory,    \* streaming_chatbot: is_regulatory
    user_id_state,    \* per browser session: the value of gr.State user_id_state
    session,          \* the browser session the turn belongs to
    user_id,          \* streaming_chatbot: user_id
    threads,          \* the save_to_memory threads that were started and have not ended
    memory_store,     \* the records mem0_client.add has accepted
    lookups           \* the user ids mem0_client.search was called with, by session

retrievalVars ==
    <<cached_searches, pc, params, src_idx, all_results, crawl_results, calls,
      history, ncalls>>

keyVars == <<tuple1, tuple2, key1, key2, kpc>>

extractVars == <<message, response, extracted, epc>>

turnVars ==
    <<tpc, user_message, chat, interactive, steps, tparams, results_key,
      memory_results, prompt, completion, fragments, delivered, streaming_content,
      created, nturns, intent_reply, is_regulatory>>

sessionVars == <<user_id_state, session, user_id, threads, memory_store, lookups>>

NoParams == Query(<<>>, <<>>, <<>>)

NoAggregate == [results |-> <<>>, total_found |-> -1]

RetrievalInit ==
    /\ cached_searches = <<>>
    /\ pc = [t \in Turns |-> "Idle"]
    /\ params = [t \in Turns |-> NoParams]
    /\ src_idx = [t \in Turns |-> 0]
    /\ all_results = [t \in Turns |-> <<>>]
    /\ crawl_results = [t \in Turns |-> NoAggregate]
    /\ calls = [t \in Turns |-> <<>>]
    /\ history = {}
    /\ ncalls = 0

\* the fingerprint of the turn's query
CacheKey(t) ==
    generate_cache_key(params[t].industry, params[t].region, params[t].keywords)

\* the sources the crawl loop of the turn visits
Sources(t) == FirstSources(UrlsToCrawl(params[t].region))


\* ------------------------------------------------------------------------
\* generate_cache_key on drawn tuples
\* ------------------------------------------------------------------------

KeyAlphabet == {"a", "A", ":", SIGMA, sigma, fsigma}

\* the field values the fingerprint specification draws
KeyIndustries == ListsUpTo(KeyAlphabet, MaxLen)

KeyRegions == {<<>>, US, <<"u", "s">>}

KeyKeywords == {<<>>, <<"a">>}

FieldValues(f) ==
    CASE f = "industry" -> KeyIndustries
      [] f = "region" -> KeyRegions
      [] f = "keywords" -> KeyKeywords

NoKey == <<"md5", <<>>>>

KeyIdle ==
    /\ tuple1 = NoParams
    /\ tuple2 = NoParams
    /\ key1 = NoKey
    /\ key2 = NoKey
    /\ kpc = "idle"

KeyInit ==
    /\ tuple1 \in {Query(i, r, k) : i \in KeyIndustries, r \in KeyRegions, k \in KeyKeywords}
    /\ tuple2 = tuple1
    /\ key1 = NoKey
    /\ key2 = NoKey
    /\ kpc = "drawn"

\* one field of the tuple is given another value and both tuples are fingerprinted
Fingerprint ==
    /\ kpc = "drawn"
    /\ \E f \in {"industry", "region", "keywords"} :
          \E v \in FieldValues(f) :
             /\ tuple2' = [tuple1 EXCEPT ![f] = v]
             /\ key2' = generate_cache_key(tuple2'.industry, tuple2'.region, tuple2'.keywords)
    /\ key1' = generate_cache_key(tuple1.industry, tuple1.region, tuple1.keywords)
    /\ kpc' = "hashed"
    /\ UNCHANGED <<retrievalVars, turnVars, sessionVars, extractVars, tuple1>>

\* the field values of the pair specification: empty, in either letter case,
\* the separator of the key text alone and after a letter
PairTexts == {<<>>, <<"a">>, <<"A">>, <<":">>, <<"a", ":">>}

PairTuples == {Query(i, r, k) : i \in PairTexts, r \in PairTexts, k \in PairTexts}

KeyPairInit ==
    /\ tuple1 \in PairTuples
    /\ tuple2 \in PairTuples
    /\ key1 = NoKey
    /\ key2 = NoKey
    /\ kpc = "drawn"

\* generate_cache_key is called on each of the two tuples
FingerprintBoth ==
    /\ kpc = "drawn"
    /\ key1' = generate_cache_key(tuple1.industry, tuple1.region, tuple1.keywords)
    /\ key2' = generate_cache_key(tuple2.industry, tuple2.region, tuple2.keywords)
    /\ kpc' = "hashed"
    /\ UNCHANGED <<retrievalVars, turnVars, sessionVars, extractVars, tuple1, tuple2>>

\* ------------------------------------------------------------------------
\* RegRadarAgent.extract_parameters
\* ------------------------------------------------------------------------

\* JSON values as json.loads returns them
JNull == [type |-> "null", val |-> ""]
JStr(str) == [type |-> "str", val |-> str]
JNum == [type |-> "number", val |-> "1"]
JList == [type |-> "list", val |-> "[]"]
JTrue == [type |-> "bool", val |-> "true"]

\* a JSON object: a dict from the keys it has to JSON values
JObject(fields) == [type |-> "object", fields |-> fields]

ParamKeys == {"industry", "region", "keywords", "report_type"}

\* what the completion service may put under a key of the object
ReplyValues(k) ==
    IF k = "report_type"
    THEN {JNull, JStr("quick"), JStr("summary"), JStr("full"), JStr("Quick"),
          JStr("detailed"), JNum}
    ELSE {JNull, JStr("AI")}

\* every dict over a subset of the four keys
ReplyObjects ==
    UNION {{JObject(f) : f \in {g \in [ks -> UNION {ReplyValues(k) : k \in ParamKeys}] :
                                    \A k \in ks : g[k] \in ReplyValues(k)}} :
           ks \in SUBSET ParamKeys}

\* what call_llm returns: the apology of its except clause, a null content,
\* text that is no JSON, or text that is the JSON of a value
Apology == [kind |-> "apology", value |-> JNull]
NoContent == [kind |-> "none", value |-> JNull]
Prose == [kind |-> "prose", value |-> JNull]
JsonText(v) == [kind |-> "json", value |-> v]

Replies ==
    {Apology, NoContent, Prose}
    \cup {JsonText(v) : v \in {JNull, JNum, JList, JTrue, JStr("AI")} \cup ReplyObjects}

\* the phrases of the three fallback lists, and the messages drawn: a message is
\* the set of list phrases that occur in its lowercased text
SummaryWords == {"summary", "summarize", "short summary"}

ReportWords == {"report", "full report", "comprehensive"}

QuickWords ==
    {"when is", "who is", "how much", "how many", "specific", "exact", "detail",
     "quick", "brief", "answer", "fact", "date", "number", "tell me more",
     "give me more", "more details", "more info", "expand on", "elaborate on"}

\* the region token and the industry keyword a drawn message may also contain
RegionTokens == {"eu"}

IndustryWords == {"fintech"}

Messages == SUBSET ({"summary", "report", "quick", "date"} \cup RegionTokens \cup IndustryWords)

\* any(word in msg_lower for word in words)
ContainsAny(msg, words) == msg \cap words # {}

\* a chain that tests the fact and detail phrases first
FallbackQuickFirst(msg) ==
    IF ContainsAny(msg, QuickWords) THEN "quick"
    ELSE IF ContainsAny(msg, SummaryWords) THEN "summary"
    ELSE "full"

\* the if/elif chain of the except clause (lines 107-142)
FallbackReportType(msg) ==
    IF ContainsAny(msg, SummaryWords) THEN "summary"
    ELSE IF ContainsAny(msg, ReportWords) THEN "full"
    ELSE IF ContainsAny(msg, QuickWords) THEN "quick"
    ELSE "full"

\* the params of the except clause (lines 143-148)
FallbackParams(msg) ==
    JObject([k \in ParamKeys |->
        CASE k = "industry" -> JStr("General")
          [] k = "region" -> JStr("US")
          [] k = "keywords" -> JStr("")
          [] k = "report_type" -> JStr(FallbackReportType(msg))])

\* json.loads(response) raises: a null content is a TypeError, other text a decode error
JsonLoadsRaises(reply) == reply.kind # "json"

\* params.get(key) on a dict
DictGet(obj, k) == IF k \in DOMAIN obj.fields THEN obj.fields[k] ELSE JNull

ValidReportTypes == {JStr("quick"), JStr("summary"), JStr("full")}

\* a normalisation that only fills in an absent report_type
NormalizeOnlyMissing(obj) ==
    IF "report_type" \notin DOMAIN obj.fields
    THEN JObject(("report_type" :> JStr("full")) @@ obj.fields)
    ELSE obj

\* lines 150-151 on a dict
NormalizeReportType(obj) ==
    IF DictGet(obj, "report_type") \notin ValidReportTypes
    THEN JObject(("report_type" :> JStr("full")) @@ obj.fields)
    ELSE obj

\* how the call ends: it returns params, or an exception leaves it
Returned(value) == [raised |-> FALSE, params |-> value]

Raised == [raised |-> TRUE, params |-> JNull]

\* lines 103-152 for the reply of call_llm: params.get of a value that is no
\* dict is an AttributeError outside the try
ExtractOutcome(msg, reply) ==
    LET loaded == IF JsonLoadsRaises(reply) THEN FallbackParams(msg) ELSE reply.value
    IN  IF loaded.type # "object" THEN Raised
        ELSE Returned(NormalizeReportType(loaded))

ExtractIdle ==
    /\ message = {}
    /\ response = NoContent
    /\ extracted = Raised
    /\ epc = "idle"

ExtractInit ==
    /\ message \in Messages
    /\ response = NoContent
    /\ extracted = Raised
    /\ epc = "start"

\* RegRadarAgent.extract_parameters, the completion service answering reply
extract_parameters ==
    /\ epc = "start"
    /\ \E reply \in Replies :
          /\ response' = reply
          /\ extracted' = ExtractOutcome(message, reply)
    /\ epc' = "done"
    /\ UNCHANGED <<retrievalVars, turnVars, sessionVars, keyVars, message>>

\* ------------------------------------------------------------------------
\* A turn of streaming_chatbot around the retrieval, and crawl_regulatory_sites
\* ------------------------------------------------------------------------

\* the record of one service call and of what it gave back
Call(kind, source, url, resp) ==
    [kind |-> kind, source |-> source, url |-> url, resp |-> resp]

\* the record of one retrieval that returned
Retrieval(t, aggregate) == [params |-> params[t], aggregate |-> aggregate]

\* the turn is over: its locals are gone
EndTurn(t) ==
    /\ pc' = [pc EXCEPT ![t] = "Idle"]
    /\ params' = [params EXCEPT ![t] = NoParams]
    /\ src_idx' = [src_idx EXCEPT ![t] = 0]
    /\ all_results' = [all_results EXCEPT ![t] = <<>>]
    /\ crawl_results' = [crawl_results EXCEPT ![t] = NoAggregate]
    /\ calls' = [calls EXCEPT ![t] = <<>>]

\* streaming_chatbot up to the tool status update (line 88): the turn has its
\* params and yields before process_regulatory_query
Submit(t, qs) ==
    /\ pc[t] = "Idle"
    /\ ncalls < MaxCalls
    /\ \E q \in qs : params' = [params EXCEPT ![t] = q]
    /\ pc' = [pc EXCEPT ![t] = "ToolStatus"]
    /\ ncalls' = ncalls + 1
    /\ UNCHANGED <<turnVars, sessionVars, keyVars, extractVars, cached_searches, src_idx, all_results, crawl_results, calls, history>>

\* stop.click(None, cancels=[submit_event, click_event]): the generator is dropped
\* at the update it waits at, never inside a step
Stop(t) ==
    /\ pc[t] \in {"ToolStatus", "Found"}
    /\ EndTurn(t)
    /\ UNCHANGED <<turnVars, sessionVars, keyVars, extractVars, cached_searches, history, ncalls>>

\* crawl_regulatory_sites lines 28-36: the fingerprint and the cache test
Lookup(t) ==
    /\ pc[t] = "ToolStatus"
    /\ IF CacheHit(cached_searches, CacheKey(t))
       THEN pc' = [pc EXCEPT ![t] = "Hit"]
       ELSE pc' = [pc EXCEPT ![t] = "Crawl"]
    /\ src_idx' = [src_idx EXCEPT ![t] = 0]
    /\ all_results' = [all_results EXCEPT ![t] = <<>>]
    /\ UNCHANGED <<turnVars, sessionVars, keyVars, extractVars, cached_searches, params, crawl_results, calls, history, ncalls>>

\* line 30: return self.cached_searches[cache_key]
HitReturn(t) ==
    /\ pc[t] = "Hit"
    /\ crawl_results' = [crawl_results EXCEPT ![t] = cached_searches[CacheKey(t)]]
    /\ history' = history \cup {Retrieval(t, cached_searches[CacheKey(t)])}
    /\ pc' = [pc EXCEPT ![t] = "Found"]
    /\ UNCHANGED <<turnVars, sessionVars, keyVars, extractVars, cached_searches, params, src_idx, all_results, calls, ncalls>>

\* lines 39-43: one pass of the crawl loop, the service answering resp
Crawl(t, resps) ==
    /\ pc[t] = "Crawl"
    /\ LET src == Sources(t)[src_idx[t] + 1]
       IN  \E resp \in resps :
             /\ all_results' = [all_results EXCEPT ![t] =
                    @ \o get_crawl_results(src.name, src.url, resp)]
             /\ calls' = [calls EXCEPT ![t] =
                    Append(@, Call("crawl", src.name, src.url, resp))]
    /\ src_idx' = [src_idx EXCEPT ![t] = @ + 1]
    /\ pc' = [pc EXCEPT ![t] =
                 IF src_idx[t] + 1 = Len(Sources(t)) THEN "Search" ELSE "Crawl"]
    /\ UNCHANGED <<turnVars, sessionVars, keyVars, extractVars, cached_searches, params, crawl_results, history, ncalls>>

\* line 59: tavily_client.crawl is called without a timeout of the caller and
\* the call never returns; the loop, and the turn with it, stands in the call
CrawlHangs(t) ==
    /\ pc[t] = "Crawl"
    /\ pc' = [pc EXCEPT ![t] = "Blocked"]
    /\ UNCHANGED <<turnVars, sessionVars, keyVars, extractVars, cached_searches, params,
                   src_idx, all_results, crawl_results, calls, history, ncalls>>

\* a general search whose results are put before those of the crawls
SearchFirst(t, resps) ==
    /\ pc[t] = "Search"
    /\ \E resp \in resps :
          /\ all_results' = [all_results EXCEPT ![t] = get_search_results(resp) \o @]
          /\ calls' = [calls EXCEPT ![t] = Append(@, Call("search", "Web Search", "", resp))]
    /\ pc' = [pc EXCEPT ![t] = "Store"]
    /\ UNCHANGED <<turnVars, sessionVars, keyVars, extractVars, cached_searches, params, src_idx, crawl_results, history, ncalls>>

\* lines 46-47: the general search
Search(t, resps) ==
    /\ pc[t] = "Search"
    /\ \E resp \in resps :
          /\ all_results' = [all_results EXCEPT ![t] = @ \o get_search_results(resp)]
          /\ calls' = [calls EXCEPT ![t] = Append(@, Call("search", "Web Search", "", resp))]
    /\ pc' = [pc EXCEPT ![t] = "Store"]
    /\ UNCHANGED <<turnVars, sessionVars, keyVars, extractVars, cached_searches, params, src_idx, crawl_results, history, ncalls>>

\* lines 49-51: the aggregate is built, stored under the fingerprint and returned
Store(t) ==
    /\ pc[t] = "Store"
    /\ LET results == Aggregate(all_results[t])
       IN  /\ cached_searches' = (CacheKey(t) :> results) @@ cached_searches
           /\ crawl_results' = [crawl_results EXCEPT ![t] = results]
           /\ history' = history \cup {Retrieval(t, results)}
    /\ pc' = [pc EXCEPT ![t] = "Found"]
    /\ UNCHANGED <<turnVars, sessionVars, keyVars, extractVars, params, src_idx, all_results, calls, ncalls>>

\* from the results count update (line 101) to the end of the turn
Finish(t) ==
    /\ pc[t] = "Found"
    /\ EndTurn(t)
    /\ UNCHANGED <<turnVars, sessionVars, keyVars, extractVars, cached_searches, history, ncalls>>

\* the responses the cache specifications draw: a crawl fails or gives one page,
\* the search gives one hit
CrawlOutcomes == {Raise, Returns(<<GoodPage>>)}

SearchOutcomes == {Returns(<<GoodHit>>)}

\* ------------------------------------------------------------------------
\* The completion service (src/tools/llm.py) and the memory store
\* (src/tools/memory_tools.py) as a turn of streaming_chatbot sees them
\* ------------------------------------------------------------------------

\* most chunks one completion stream carries
MaxChunks == 2

\* most turns started in one behaviour of the turn specifications
MaxTurns == 2

\* longest reply to the intent prompt the intent specification draws
MaxReply == 3

\* what call_llm returns for the intent prompt: a text, or the None of a
\* completion without content
LLMText(text) == [none |-> FALSE, text |-> text]

LLMNone == [none |-> TRUE, text |-> <<>>]

\* "I apologize, but I encountered an error processing your request."
ApologyText == <<"I", " ", "a", "p", "o", "l", "o", "g", "i", "z", "e">>

\* what client.chat.completions.create does for a call of call_llm: it raises,
\* or it returns a completion whose message.content is a text or None
ServiceRaises == [raised |-> TRUE, content |-> LLMNone]

Completes(content) == [raised |-> FALSE, content |-> content]

\* call_llm (llm.py lines 17-28): the content, or the apology of the except clause
call_llm(outcome) ==
    IF outcome.raised THEN LLMText(ApologyText) ELSE outcome.content

Yes == LLMText(<<"y", "e", "s">>)

No == LLMText(<<"n", "o">>)

\* the outcomes of the intent call the turn specification draws
ClassifyOutcomes == {Completes(Yes), Completes(No), Completes(LLMNone), ServiceRaises}

IntentAlphabet == {"y", "Y", "n", " ", "\n"}

\* the outcomes the intent specification draws: the service raises, the content
\* is None, is a short text over the alphabet, or is one of the longer texts
IntentOutcomes ==
    {ServiceRaises, Completes(LLMNone), Completes(Yes), Completes(No),
     Completes(LLMText(<<" ", "Y", "e", "s", "\n">>)), Completes(LLMText(ApologyText))}
    \cup {Completes(LLMText(t)) : t \in ListsUpTo(IntentAlphabet, MaxReply)}

Whitespace == {" ", "\n"}

RECURSIVE LStrip(_)
LStrip(s) ==
    IF s # <<>> /\ Head(s) \in Whitespace THEN LStrip(Tail(s)) ELSE s

RECURSIVE RStrip(_)
RStrip(s) ==
    IF s # <<>> /\ s[Len(s)] \in Whitespace THEN RStrip(SubSeq(s, 1, Len(s) - 1)) ELSE s

\* str.strip()
Strip(s) == RStrip(LStrip(s))

\* str.startswith(prefix)
StartsWith(s, prefix) ==
    Len(s) >= Len(prefix) /\ SubSeq(s, 1, Len(prefix)) = prefix

\* an intent test that takes every reply but a negative one for a yes
IsRegulatoryUnlessNo(reply) == ~ StartsWith(Lower(Strip(reply.text)), <<"n">>)

\* RegRadarAgent.is_regulatory_query on the reply of call_llm (lines 174-175)
is_regulatory_query(reply) == StartsWith(Lower(Strip(reply.text)), <<"y">>)

\* None.strip() is an AttributeError
IsRegulatoryRaises(reply) == reply.none

\* the message of a turn: blank or not, and the phrases of the word lists that
\* occur in its lowercased text
Message(blank, phrases) == [blank |-> blank, phrases |-> phrases]

TurnMessages == {Message(TRUE, {}), Message(FALSE, {"quick", "latest"})}

CrawlerWords == {"crawl", "scan", "check", "latest", "update", "recent"}

MemoryWords == {"remember", "history", "past", "previous"}

\* a determine_intended_tool that looks for the memory words first
DetermineToolMemoryFirst(phrases) ==
    IF ContainsAny(phrases, MemoryWords) THEN "Memory Search"
    ELSE IF ContainsAny(phrases, CrawlerWords) THEN "Regulatory Web Crawler"
    ELSE "Regulatory Search"

\* RegRadarAgent.determine_intended_tool: the tool name shown in the status
determine_intended_tool(phrases) ==
    IF ContainsAny(phrases, CrawlerWords) THEN "Regulatory Web Crawler"
    ELSE IF ContainsAny(phrases, MemoryWords) THEN "Memory Search"
    ELSE "Regulatory Search"

\* a chunk of the completion stream: its delta content, or no content
Delta(text) == [none |-> FALSE, text |-> text]

DeltaNone == [none |-> TRUE, text |-> <<>>]

Deltas == {DeltaNone, Delta(<<>>), Delta(<<"a">>), Delta(<<"b", "c">>)}

\* what the completion service does for one streaming call: the chunks it
\* sends, and whether it then raises (at the call when there are no chunks)
Stream(deltas, fails) == [deltas |-> deltas, fails |-> fails]

Streams(n) == {Stream(d, f) : d \in ListsUpTo(Deltas, n), f \in BOOLEAN}

\* f"Error: {str(e)}"
ErrorFragment == <<"E", "r", "r", "o", "r", ":", " ", "t", "i", "m", "e", "o", "u", "t">>

\* if delta: yield delta
RECURSIVE YieldedDeltas(_)
YieldedDeltas(deltas) ==
    IF deltas = <<>> THEN <<>>
    ELSE (IF ~ Head(deltas).none /\ Head(deltas).text # <<>>
          THEN <<Head(deltas).text>> ELSE <<>>)
         \o YieldedDeltas(Tail(deltas))

\* a stream_llm whose except clause yields nothing
StreamLlmSilent(stream) == YieldedDeltas(stream.deltas)

\* stream_llm: the fragments the generator yields, in order
stream_llm(stream) ==
    YieldedDeltas(stream.deltas) \o (IF stream.fails THEN <<ErrorFragment>> ELSE <<>>)

\* a memory dict of the store
Memory(id, text) == [id |-> id, memory |-> text]

PastQuery == Memory("m1", <<"p", "a", "s", "t">>)

\* a memory dict without the key "memory"
BareMemory == [id |-> "m2"]

MemoryOutcomes == {Raise, Returns(<<>>), Returns(<<PastQuery, BareMemory>>)}

\* a search_memory that hands on what the failed call left
SearchMemoryLeaks(resp) == IF resp.raised THEN <<BareMemory>> ELSE resp.results

\* MemoryTools.search_memory, given what mem0_client.search did
search_memory(resp) == IF resp.raised THEN <<>> ELSE resp.results

\* a record of the store: the two messages handed to mem0_client.add
MemoryRecord(query, response_text) == [query |-> query, response |-> response_text]

\* a save_to_memory that hands the store the query alone
SaveToMemoryQueryOnly(query, response_text, resp) ==
    IF resp.raised THEN <<>> ELSE <<MemoryRecord(query, <<>>)>>

\* MemoryTools.save_to_memory, given what mem0_client.add did: the records added
save_to_memory(query, response_text, resp) ==
    IF resp.raised THEN <<>> ELSE <<MemoryRecord(query, response_text)>>

\* ------------------------------------------------------------------------
\* What a turn computes from params, the aggregate and the memories
\* ------------------------------------------------------------------------

\* title[:100]
TitleLimit == 100

\* memory_results[:3]
TopMemories == 3

\* memory_text[:300]
MemoryTextLimit == 300

\* crawl_results["results"][:8]
PromptLimit == 8

General == <<"G", "e", "n", "e", "r", "a", "l">>

NoneText == <<"N", "o", "n", "e">>

\* the characters of the strings the replies carry
Chars(str) ==
    CASE str = "AI" -> AI
      [] str = "EU" -> EU
      [] str = "US" -> US
      [] str = "General" -> General
      [] str = "" -> <<>>

\* f"{value}" of a params value
StrOf(value) == IF value = JNull THEN NoneText ELSE Chars(value.val)

\* the characters of the titles the service gives
TitleLen(title) ==
    CASE title = "Press release" -> 13
      [] title = "Update" -> 6
      [] OTHER -> 50

\* result["title"][:100] if result["title"] else "No Title"
DisplayTitle(title) ==
    IF title \in {None, ""} THEN Body("No Title", 8)
    ELSE Slice(Body(title, TitleLen(title)), TitleLimit)

\* one entry of results_display (lines 116-120)
DisplayEntry(count, result) ==
    [count |-> count, source |-> result.source,
     title |-> DisplayTitle(result.title), url |-> result.url]

\* the for loop of lines 109-120: results_display, and the list it went through
\* as the loop left it
RECURSIVE DisplayLoop(_, _, _, _)
DisplayLoop(results, i, seen_urls, results_display) ==
    IF i > Len(results) THEN [display |-> results_display, results |-> results]
    ELSE IF results[i].url \in seen_urls
         THEN DisplayLoop(results, i + 1, seen_urls, results_display)
         ELSE DisplayLoop(results, i + 1, seen_urls \cup {results[i].url},
                          Append(results_display,
                                 DisplayEntry(Len(results_display) + 1, results[i])))

\* a display with one entry for every result
DedupKeepsAll(results) ==
    [display |-> [i \in 1..Len(results) |-> DisplayEntry(i, results[i])],
     results |-> results]

\* a loop that drops the duplicates from the list it goes through
DedupInPlace(results) ==
    LET out == DisplayLoop(results, 1, {}, <<>>)
    IN  [display |-> out.display,
         results |-> SelectSeq(results, LAMBDA r :
                        \E j \in 1..Len(out.display) :
                            out.display[j].url = r.url /\ out.display[j].source = r.source)]

\* lines 106-120 on crawl_results["results"]
Dedup(results) == DisplayLoop(results, 1, {}, <<>>)

\* seq[:n]
FirstN(seq, n) == SubSeq(seq, 1, IF Len(seq) < n THEN Len(seq) ELSE n)

NotAvailable == <<"N", "/", "A">>

\* the numbered lines built from the top memories (lines 137-141, 211-213)
MemoryDetails(memories) ==
    LET top == FirstN(memories, TopMemories)
    IN  [i \in 1..Len(top) |->
            [count |-> i,
             text |-> FirstN(Get(top[i], "memory", NotAvailable), MemoryTextLimit)]]

\* a grouping that keeps only the latest result of a source
RECURSIVE BySourceKeepsLatest(_, _)
BySourceKeepsLatest(results, groups) ==
    IF results = <<>> THEN groups
    ELSE LET r == Head(results)
             at == {g \in 1..Len(groups) : groups[g].source = r.source}
         IN  IF at = {}
             THEN BySourceKeepsLatest(Tail(results), Append(groups, [source |-> r.source, results |-> <<r>>]))
             ELSE BySourceKeepsLatest(Tail(results),
                           [groups EXCEPT ![CHOOSE g \in at : TRUE].results = <<r>>])

\* by_source of generate_report: the first results grouped by source, the
\* sources in the order of their first result
RECURSIVE BySource(_, _)
BySource(results, groups) ==
    IF results = <<>> THEN groups
    ELSE LET r == Head(results)
             at == {g \in 1..Len(groups) : groups[g].source = r.source}
         IN  IF at = {}
             THEN BySource(Tail(results), Append(groups, [source |-> r.source, results |-> <<r>>]))
             ELSE BySource(Tail(results),
                           [groups EXCEPT ![CHOOSE g \in at : TRUE].results = Append(@, r)])

\* section headers in another order than the text of the full prompt has them
SectionHeadersFindingsFirst(kind) ==
    IF kind = "full"
    THEN <<"Key Findings", "Executive Summary", "Compliance Requirements",
           "Action Items", "Resources">>
    ELSE <<>>

\* the "## ..." headers the text of a prompt names, in the order of the text
\* (lines 249-265): only the full prompt has any
SectionHeaders(kind) ==
    IF kind = "full"
    THEN <<"Executive Summary", "Key Findings", "Compliance Requirements",
           "Action Items", "Resources">>
    ELSE <<>>

\* a prompt: which text it is, what it interpolates, its headers, its data
Prompt(kind, fields, sections, context, data) ==
    [kind |-> kind, fields |-> fields, sections |-> sections,
     headers |-> SectionHeaders(kind), memory_context |-> context, data |-> data]

\* params restricted to the keys the prompt text interpolates
Interpolated(qparams, keys) == [k \in keys |-> StrOf(qparams.fields[k])]

\* a generate_report that branches on report_type before it looks at the results
GenerateReportTypeFirst(qparams, aggregate, memories) ==
    LET report_type == Get(qparams.fields, "report_type", JStr("full"))
        data == BySource(FirstN(aggregate.results, PromptLimit), <<>>)
    IN  IF report_type = JStr("quick")
        THEN Prompt("quick", Interpolated(qparams, {"industry", "region", "keywords"}),
                    0, MemoryDetails(memories), data)
        ELSE IF aggregate.results = <<>>
        THEN Prompt("guidance", Interpolated(qparams, {"industry", "region", "keywords"}),
                    0, <<>>, <<>>)
        ELSE Prompt("full", Interpolated(qparams, {"industry", "region"}),
                    5, MemoryDetails(memories), data)

\* RegRadarAgent.generate_report: the prompt it hands to stream_llm
generate_report(qparams, aggregate, memories) ==
    LET report_type == Get(qparams.fields, "report_type", JStr("full"))
        data == BySource(FirstN(aggregate.results, PromptLimit), <<>>)
    IN  IF aggregate.results = <<>>
        THEN Prompt("guidance", Interpolated(qparams, {"industry", "region", "keywords"}),
                    0, <<>>, <<>>)
        ELSE IF report_type = JStr("quick")
        THEN Prompt("quick", Interpolated(qparams, {"industry", "region", "keywords"}),
                    0, MemoryDetails(memories), data)
        ELSE IF report_type = JStr("summary")
        THEN Prompt("summary", Interpolated(qparams, {"industry", "region", "keywords"}),
                    0, MemoryDetails(memories), data)
        ELSE Prompt("full", Interpolated(qparams, {"industry", "region"}),
                    5, MemoryDetails(memories), data)

\* a general chat prompt that leaves the message out
MessagePromptBlank(msg) == Prompt("message", Message(TRUE, {}), 0, <<>>, <<>>)

\* the general chat prompt is the message itself (line 51)
MessagePrompt(msg) == Prompt("message", msg, 0, <<>>, <<>>)

\* ------------------------------------------------------------------------
\* A turn of UIHandler.streaming_chatbot, from update to update
\* ------------------------------------------------------------------------

\* a ChatMessage put on history
Msg(role, kind, content) == [role |-> role, kind |-> kind, content |-> content]

\* one call of a service or tool by the turn, and whether the call failed
Step(name, failed) == [name |-> name, failed |-> failed]

ParamsShown == {"industry", "region", "keywords"}

\* tool_status (lines 75-86), and with the results count of lines 96-99
ToolStatus(qparams, tool_name, found) ==
    Msg("assistant", "tool_status",
        [params |-> Interpolated(qparams, ParamsShown), tool |-> tool_name, found |-> found])

\* nothing was handed to save_to_memory
NoneCreated == [handed |-> <<>>]

\* the browser sessions: each has its own gr.State and its own input box
Sessions == {"s1", "s2"}

\* f"user-{uuid.uuid4().hex[:4]}": four hex digits of a random uuid, so two
\* calls may give the same id
UserIds == {"user-3f2a", "user-b71c"}

\* a started thread save_to_memory(user_id, message, streaming_content)
Thread(turn, s, uid, query, response_text) ==
    [turn |-> turn, session |-> s, user_id |-> uid, query |-> query,
     response |-> response_text]

\* a record of the store, under the user id it was added with
Stored(th, record) ==
    [turn |-> th.turn, session |-> th.session, user_id |-> th.user_id, record |-> record]

\* mem0_client.search(query=..., user_id=...) as issued by a session
MemorySearch(s, uid) == [session |-> s, user_id |-> uid]

SessionIdle ==
    /\ user_id_state = [s \in Sessions |-> None]
    /\ session = None
    /\ user_id = None
    /\ threads = {}
    /\ memory_store = {}
    /\ lookups = {}

NoPrompt == Prompt("none", <<>>, 0, <<>>, <<>>)

\* the states a turn is over in: no turn was started, the blank message
\* returned, either branch gave its last update, an exception left the
\* generator, the generator was cancelled
TurnOver == {"Idle", "Returned", "GeneralDone", "Done", "Escaped", "Stopped"}

TurnIdle ==
    /\ tpc = "Idle"
    /\ user_message = Message(TRUE, {})
    /\ chat = <<>>
    /\ interactive = TRUE
    /\ steps = <<>>
    /\ tparams = JObject(<<>>)
    /\ results_key = NoKey
    /\ memory_results = <<>>
    /\ prompt = NoPrompt
    /\ completion = Stream(<<>>, FALSE)
    /\ fragments = <<>>
    /\ delivered = 0
    /\ streaming_content = <<>>
    /\ created = NoneCreated
    /\ nturns = 0
    /\ intent_reply = LLMNone
    /\ is_regulatory = FALSE

\* crawl_results of the turn: the object stored under results_key
TurnAggregate == cached_searches[results_key]

\* the fingerprint of the retrieval for params (lines 189-191)
ParamsKey(qparams) ==
    generate_cache_key(StrOf(qparams.fields["industry"]), StrOf(qparams.fields["region"]),
                       StrOf(qparams.fields["keywords"]))

\* the crawl loop on a cache miss: source i of the catalog answers crawls[i]
RECURSIVE CrawlAll(_, _, _)
CrawlAll(sources, crawls, i) ==
    IF i > Len(sources) THEN <<>>
    ELSE get_crawl_results(sources[i].name, sources[i].url, crawls[i])
         \o CrawlAll(sources, crawls, i + 1)

\* crawl_regulatory_sites lines 32-49 on a cache miss
Fill(qparams, crawls, search) ==
    Aggregate(CrawlAll(FirstSources(UrlsToCrawl(StrOf(qparams.fields["region"]))), crawls, 1)
              \o get_search_results(search))

\* the calls a retrieval issues: none on a hit, one crawl per source and the
\* search on a miss
RetrievalSteps(qparams, hit) ==
    IF hit THEN <<>>
    ELSE [i \in 1..Len(FirstSources(UrlsToCrawl(StrOf(qparams.fields["region"])))) |->
             Step("crawl", FALSE)]
         \o <<Step("search", FALSE)>>

\* lines 17-34 for a message of session s: a session without user id gets a
\* fresh one; a blank message returns without an update, so nothing is written
\* to the session state; any other message goes on history and the first update
\* disables the input and writes the user id to the session state
Start(msgs, sessions, ids) ==
    /\ tpc \in TurnOver
    /\ nturns < MaxTurns
    /\ nturns' = nturns + 1
    /\ \E s \in sessions, m \in msgs, fresh \in ids :
          LET uid == IF user_id_state[s] = None THEN fresh ELSE user_id_state[s]
          IN  /\ session' = s
              /\ user_id' = uid
              /\ user_message' = m
              /\ IF m.blank
                 THEN /\ tpc' = "Returned"
                      /\ chat' = <<>>
                      /\ UNCHANGED <<interactive, user_id_state>>
                 ELSE /\ tpc' = "Disabled"
                      /\ chat' = <<Msg("user", "message", m)>>
                      /\ interactive' = FALSE
                      /\ user_id_state' = [user_id_state EXCEPT ![s] = uid]
    /\ steps' = <<>>
    /\ tparams' = JObject(<<>>)
    /\ results_key' = NoKey
    /\ memory_results' = <<>>
    /\ prompt' = NoPrompt
    /\ completion' = Stream(<<>>, FALSE)
    /\ fragments' = <<>>
    /\ delivered' = 0
    /\ streaming_content' = <<>>
    /\ created' = NoneCreated
    /\ intent_reply' = LLMNone
    /\ is_regulatory' = FALSE
    /\ UNCHANGED <<retrievalVars, keyVars, extractVars, threads, memory_store, lookups>>

\* lines 37-44 and 61-66: the intent call, then the update of the branch taken
Classify(outcomes) ==
    /\ tpc = "Disabled"
    /\ \E outcome \in outcomes :
          LET reply == call_llm(outcome)
          IN  /\ steps' = Append(steps, Step("classify", outcome.raised))
              /\ intent_reply' = reply
              /\ IF IsRegulatoryRaises(reply)
                 THEN tpc' = "Escaped" /\ UNCHANGED <<chat, is_regulatory>>
                 ELSE /\ is_regulatory' = is_regulatory_query(reply)
                      /\ IF is_regulatory'
                         THEN /\ tpc' = "ToolDetect"
                              /\ chat' = Append(chat, Msg("assistant", "using_tool",
                                     [tool |-> determine_intended_tool(user_message.phrases)]))
                         ELSE /\ tpc' = "GeneralStatus"
                              /\ chat' = Append(chat, Msg("assistant", "processing", <<>>))
    /\ UNCHANGED <<retrievalVars, keyVars, extractVars, sessionVars, user_message, interactive,
                   tparams, results_key, memory_results, prompt, completion, fragments,
                   delivered, streaming_content, created, nturns>>

\* lines 69-88: extract_parameters, then the status built from params["industry"],
\* params["region"], params["keywords"]: a key that is absent is a KeyError
Extract(replies) ==
    /\ tpc = "ToolDetect"
    /\ \E reply \in replies :
          LET outcome == ExtractOutcome(user_message.phrases, reply)
          IN  /\ steps' = Append(steps, Step("extract", outcome.raised))
              /\ IF outcome.raised \/ ~ (ParamsShown \subseteq DOMAIN outcome.params.fields)
                 THEN tpc' = "Escaped" /\ UNCHANGED <<chat, tparams>>
                 ELSE /\ tpc' = "ToolStatus"
                      /\ tparams' = outcome.params
                      /\ chat' = Append(SubSeq(chat, 1, Len(chat) - 1),
                                        ToolStatus(outcome.params,
                                            determine_intended_tool(user_message.phrases), -1))
    /\ UNCHANGED <<retrievalVars, keyVars, extractVars, sessionVars, user_message, interactive,
                   results_key, memory_results, prompt, completion, fragments, delivered,
                   streaming_content, created, nturns, intent_reply,
                   is_regulatory>>

\* a process_regulatory_query that extracts the params again
ProcessStepsExtractAgain(qparams, hit, memory) ==
    <<Step("extract", FALSE), Step("retrieve", FALSE)>> \o RetrievalSteps(qparams, hit)
        \o <<Step("memory", memory.raised)>>

\* the calls of process_regulatory_query when params is passed in (lines 185-194):
\* crawl_regulatory_sites with its service calls, then search_memory
ProcessSteps(qparams, hit, memory) ==
    <<Step("retrieve", FALSE)>> \o RetrievalSteps(qparams, hit)
        \o <<Step("memory", memory.raised)>>

\* the variables of the retrieval other than the cache table
callVars == <<pc, params, src_idx, all_results, crawl_results, calls, history, ncalls>>

\* lines 91-101: process_regulatory_query with the params of the turn, that is
\* crawl_regulatory_sites and then search_memory, and the results count update
Process(crawls, searches, memories) ==
    /\ tpc = "ToolStatus"
    /\ \E cr \in crawls, sr \in searches, mr \in memories :
          LET key == ParamsKey(tparams)
              hit == CacheHit(cached_searches, key)
              aggregate == IF hit THEN cached_searches[key] ELSE Fill(tparams, cr, sr)
          IN  /\ cached_searches' =
                     IF hit THEN cached_searches ELSE (key :> aggregate) @@ cached_searches
              /\ results_key' = key
              /\ memory_results' = search_memory(mr)
              /\ lookups' = lookups \cup {MemorySearch(session, user_id)}
              /\ steps' = steps \o ProcessSteps(tparams, hit, mr)
              /\ chat' = [chat EXCEPT ![Len(chat)] =
                             ToolStatus(tparams, determine_intended_tool(user_message.phrases),
                                        aggregate.total_found)]
    /\ tpc' = "Found"
    /\ UNCHANGED <<callVars, keyVars, extractVars, user_message, interactive, tparams,
                   prompt, completion, fragments, delivered, streaming_content, created,
                   nturns, intent_reply, is_regulatory, user_id_state, session, user_id,
                   threads, memory_store>>

\* lines 104-133: the raw results, shown when the aggregate has results
ShowRaw ==
    /\ tpc = "Found"
    /\ TurnAggregate.results # <<>>
    /\ LET out == Dedup(TurnAggregate.results)
       IN  /\ chat' = Append(chat, Msg("assistant", "raw_results", out.display))
           /\ cached_searches' = [cached_searches EXCEPT ![results_key].results = out.results]
    /\ tpc' = "RawShown"
    /\ UNCHANGED <<callVars, keyVars, extractVars, sessionVars, user_message, interactive, steps, tparams,
                   results_key, memory_results, prompt, completion, fragments, delivered,
                   streaming_content, created, nturns, intent_reply,
                   is_regulatory>>

\* the turn stands after the raw results block (lines 103-133)
AfterRaw == tpc = "RawShown" \/ (tpc = "Found" /\ TurnAggregate.results = <<>>)

\* lines 136-151: the memories, shown when there are any
ShowMemory ==
    /\ AfterRaw
    /\ memory_results # <<>>
    /\ chat' = Append(chat, Msg("assistant", "memories",
                                [found |-> Len(memory_results),
                                 details |-> MemoryDetails(memory_results)]))
    /\ tpc' = "MemoryShown"
    /\ UNCHANGED <<retrievalVars, keyVars, extractVars, sessionVars, user_message, interactive, steps,
                   tparams, results_key, memory_results, prompt, completion, fragments, delivered,
                   streaming_content, created, nturns, intent_reply,
                   is_regulatory>>

\* lines 154-159: the generating notice
Generating ==
    /\ tpc = "MemoryShown" \/ (AfterRaw /\ memory_results = <<>>)
    /\ chat' = Append(chat, Msg("assistant", "generating", <<>>))
    /\ tpc' = "Generating"
    /\ UNCHANGED <<retrievalVars, keyVars, extractVars, sessionVars, user_message, interactive, steps,
                   tparams, results_key, memory_results, prompt, completion, fragments, delivered,
                   streaming_content, created, nturns, intent_reply,
                   is_regulatory>>

\* lines 162-167: the notice makes way for the empty reply, generate_report
\* builds its prompt and hands it to stream_llm
BeginReport(streams) ==
    /\ tpc = "Generating"
    /\ \E stream \in streams :
          /\ completion' = stream
          /\ fragments' = stream_llm(stream)
          /\ steps' = Append(steps, Step("synthesize", stream.fails))
    /\ prompt' = generate_report(tparams, TurnAggregate, memory_results)
    /\ chat' = Append(SubSeq(chat, 1, Len(chat) - 1), Msg("assistant", "reply", <<>>))
    /\ delivered' = 0
    /\ streaming_content' = <<>>
    /\ tpc' = "ReportStream"
    /\ UNCHANGED <<retrievalVars, keyVars, extractVars, sessionVars, user_message, interactive, tparams,
                   results_key, memory_results, created, nturns, intent_reply,
                   is_regulatory>>

\* lines 47-51: the same for the general branch, the prompt is the message
BeginGeneral(streams) ==
    /\ tpc = "GeneralStatus"
    /\ \E stream \in streams :
          /\ completion' = stream
          /\ fragments' = stream_llm(stream)
          /\ steps' = Append(steps, Step("reply", stream.fails))
    /\ prompt' = MessagePrompt(user_message)
    /\ chat' = Append(SubSeq(chat, 1, Len(chat) - 1), Msg("assistant", "reply", <<>>))
    /\ delivered' = 0
    /\ streaming_content' = <<>>
    /\ tpc' = "GeneralStream"
    /\ UNCHANGED <<retrievalVars, keyVars, extractVars, sessionVars, user_message, interactive, tparams,
                   results_key, memory_results, created, nturns, intent_reply,
                   is_regulatory>>

\* a loop that shows the last fragment alone
AccumulateLast(content, chunk) == chunk

\* streaming_content += chunk
Accumulate(content, chunk) == content \o chunk

\* lines 51-54 and 167-170: one pass of the for loop over the fragments
NextChunk ==
    /\ tpc \in {"GeneralStream", "ReportStream"}
    /\ delivered < Len(fragments)
    /\ delivered' = delivered + 1
    /\ streaming_content' = Accumulate(streaming_content, fragments[delivered + 1])
    /\ chat' = [chat EXCEPT ![Len(chat)] = Msg("assistant", "reply", streaming_content')]
    /\ UNCHANGED <<retrievalVars, keyVars, extractVars, sessionVars, tpc, user_message, interactive, steps,
                   tparams, results_key, memory_results, prompt, completion, fragments, created, nturns, intent_reply,
                   is_regulatory>>

\* lines 57-58: the general branch enables the input and returns
GeneralEnd ==
    /\ tpc = "GeneralStream"
    /\ delivered = Len(fragments)
    /\ interactive' = TRUE
    /\ tpc' = "GeneralDone"
    /\ UNCHANGED <<retrievalVars, keyVars, extractVars, sessionVars, user_message, chat, steps, tparams,
                   results_key, memory_results, prompt, completion, fragments, delivered,
                   streaming_content, created, nturns, intent_reply,
                   is_regulatory>>

\* lines 173-180: the completion notice, the input is enabled
Complete ==
    /\ tpc = "ReportStream"
    /\ delivered = Len(fragments)
    /\ chat' = Append(chat, Msg("assistant", "complete", <<>>))
    /\ interactive' = TRUE
    /\ tpc' = "Complete"
    /\ UNCHANGED <<retrievalVars, keyVars, extractVars, sessionVars, user_message, steps, tparams,
                   results_key, memory_results, prompt, completion, fragments, delivered,
                   streaming_content, created, nturns, intent_reply,
                   is_regulatory>>

\* a turn that waits for its thread: thread.join() after start()
PersistJoins ==
    /\ tpc = "Complete"
    /\ created' = [handed |-> <<MemoryRecord(user_message, streaming_content)>>]
    /\ threads' = threads \cup
           {Thread(nturns, session, user_id, user_message, streaming_content)}
    /\ steps' = Append(steps, Step("persist", FALSE))
    /\ tpc' = "Joining"
    /\ UNCHANGED <<retrievalVars, keyVars, extractVars, user_message, chat, interactive,
                   tparams, results_key, memory_results, prompt, completion, fragments,
                   delivered, streaming_content, nturns, intent_reply, is_regulatory,
                   user_id_state, session, user_id, memory_store, lookups>>

\* lines 183-187: threading.Thread(target=save_to_memory, args=(user_id, message,
\* streaming_content), daemon=True).start(): the thread is started and the
\* generator ends
Persist ==
    /\ tpc = "Complete"
    /\ created' = [handed |-> <<MemoryRecord(user_message, streaming_content)>>]
    /\ threads' = threads \cup
           {Thread(nturns, session, user_id, user_message, streaming_content)}
    /\ steps' = Append(steps, Step("persist", FALSE))
    /\ tpc' = "Done"
    /\ UNCHANGED <<retrievalVars, keyVars, extractVars, user_message, chat, interactive,
                   tparams, results_key, memory_results, prompt, completion, fragments,
                   delivered, streaming_content, nturns, intent_reply, is_regulatory,
                   user_id_state, session, user_id, memory_store, lookups>>

\* the records of a list
Records(added) == {added[i] : i \in 1..Len(added)}

\* a started thread runs MemoryTools.save_to_memory to its end, the store
\* answering resp; a thread that hangs stays among the threads
SaveThread(resps) ==
    /\ \E th \in threads, resp \in resps :
          /\ threads' = threads \ {th}
          /\ memory_store' = memory_store \cup
                 {Stored(th, r) : r \in Records(save_to_memory(th.query, th.response, resp))}
    /\ UNCHANGED <<retrievalVars, keyVars, extractVars, turnVars, user_id_state, session,
                   user_id, lookups>>

\* the turn is between its first update and its end
Running ==
    {"Disabled", "ToolDetect", "GeneralStatus", "ToolStatus", "Found", "RawShown",
     "MemoryShown", "Generating", "ReportStream", "GeneralStream", "Complete"}

\* stop.click(None, cancels=[submit_event, click_event]) (line 294): the
\* generator of the running turn is dropped where it stands and gives no
\* further update
StopTurn ==
    /\ tpc \in Running
    /\ tpc' = "Stopped"
    /\ UNCHANGED <<retrievalVars, keyVars, extractVars, sessionVars, user_message, chat,
                   interactive, steps, tparams, results_key, memory_results, prompt,
                   completion, fragments, delivered, streaming_content, created, nturns,
                   intent_reply, is_regulatory>>

\* clear.click(delayed_clear) between two turns (lines 189-191 and 295-299):
\* the chat is emptied, the input enabled, the session state handed back as is
delayed_clear ==
    /\ tpc \in TurnOver
    /\ chat' = <<>>
    /\ interactive' = TRUE
    /\ user_id_state' = user_id_state
    /\ UNCHANGED <<retrievalVars, keyVars, extractVars, tpc, user_message, steps, tparams,
                   results_key, memory_results, prompt, completion, fragments, delivered,
                   streaming_content, created, nturns, intent_reply, is_regulatory,
                   session, user_id, threads, memory_store, lookups>>

\* the replies of the extraction call the turn specifications draw: no JSON,
\* JSON that is no object, an object without industry, and complete objects
TurnObject(region, report_type) ==
    JObject([k \in ParamKeys |->
        CASE k = "industry" -> JStr("AI")
          [] k = "region" -> region
          [] k = "keywords" -> JStr("")
          [] k = "report_type" -> report_type])

TurnReplies ==
    {Prose, JsonText(JList), JsonText(JObject([region |-> JStr("EU")])),
     JsonText(TurnObject(JStr("EU"), JStr("quick"))),
     JsonText(TurnObject(JStr("EU"), JStr("summary"))),
     JsonText(TurnObject(JStr("EU"), JStr("detailed")))}

\* a hit of the general search on a page that a crawl gave as well
PageHit == SearchItem("page", "", Body("snippet", 300))

\* the sources of the crawl loop all fail, all give one page, or all but the
\* second give one page
TurnCrawls ==
    {[i \in 1..SourceLimit |-> Raise],
     [i \in 1..SourceLimit |-> Returns(<<GoodPage>>)],
     [i \in 1..SourceLimit |-> IF i = 2 THEN Raise ELSE Returns(<<GoodPage>>)]}

TurnSearches == {Raise, Returns(<<GoodHit, PageHit>>)}

AddOutcomes == {Raise, Returns(<<>>)}

\* the streams the turn specification draws: two chunks, one chunk and then a
\* failure, a failure at the call
TurnStreams ==
    {Stream(<<Delta(<<"a">>), Delta(<<"b", "c">>)>>, FALSE),
     Stream(<<Delta(<<"a">>)>>, TRUE),
     Stream(<<>>, TRUE)}

\* most results of an aggregate the report specification draws
MaxResults == 3

\* a page the crawl gives with an empty title
UntitledPage == CrawlItem("page3", "", Body("notice", 900))

\* the results the drawn aggregates are made of: a crawled page, a search hit
\* on another page, a search hit without title on the crawled page, a crawled
\* page without title
ResultPool ==
    {FormatCrawlItem("SEC", "sec.gov", GoodPage), FormatSearchItem(GoodHit),
     FormatSearchItem(PageHit), FormatCrawlItem("SEC", "sec.gov", UntitledPage)}

\* params as they reach generate_report: industry, region and keywords are
\* there (lines 79-81), report_type is any value or absent
ReportParams ==
    {JObject([k \in ks |->
        CASE k = "industry" -> JStr("AI")
          [] k = "region" -> region
          [] k = "keywords" -> JStr("")
          [] k = "report_type" -> report_type]) :
     ks \in {ParamsShown, ParamKeys}, region \in {JStr("EU"), JNull},
     report_type \in ReplyValues("report_type")}

OlderQuery == Memory("m3", <<"o", "l", "d">>)

OldestQuery == Memory("m4", <<"f", "i", "r", "s", "t">>)

\* the memories generate_report is given: none, two, or more than it uses
ReportMemories ==
    {<<>>, <<PastQuery, BareMemory>>, <<PastQuery, BareMemory, OlderQuery, OldestQuery>>}

\* params[...] of a key that is absent is a KeyError
GenerateReportRaises(qparams) == ~ (ParamsShown \subseteq DOMAIN qparams.fields)

\* generate_report and the raw results display are called on drawn params,
\* aggregate and memories
InitReport ==
    /\ RetrievalInit!2 /\ RetrievalInit!3 /\ RetrievalInit!4 /\ RetrievalInit!5
    /\ RetrievalInit!6 /\ RetrievalInit!7 /\ RetrievalInit!8 /\ RetrievalInit!9
    /\ KeyIdle
    /\ ExtractIdle
    /\ tpc = "Drawn"
    /\ user_message = Message(FALSE, {})
    /\ chat = <<>>
    /\ interactive = FALSE
    /\ steps = <<>>
    /\ tparams \in ReportParams
    /\ results_key = ParamsKey(tparams)
    /\ cached_searches \in
           {(results_key :> Aggregate(l)) : l \in ListsUpTo(ResultPool, MaxResults)}
    /\ memory_results \in ReportMemories
    /\ prompt = NoPrompt
    /\ completion = Stream(<<>>, FALSE)
    /\ fragments = <<>>
    /\ delivered = 0
    /\ streaming_content = <<>>
    /\ created = NoneCreated
    /\ nturns = 0
    /\ intent_reply = LLMNone
    /\ is_regulatory = TRUE
    /\ SessionIdle

\* most results of an aggregate the prompt specification draws: more than the
\* prompt takes
MaxLong == 10

\* the i-th result of a long aggregate: its content tells the results apart,
\* its source and its url follow the pattern drawn
LongResult(i, by_source, by_url) ==
    [source |-> by_source[i], url |-> by_url[i], title |-> "Update",
     content |-> Body("snippet", 100 + i)]

\* how the sources follow one another in a long aggregate: the three crawls
\* and the search in call order, or two sources taking turns
SourcePatterns ==
    {[i \in 1..(MaxLong + 1) |-> IF i <= 3 THEN "SEC"
                                 ELSE IF i <= 5 THEN "Federal Register"
                                 ELSE IF i <= 7 THEN "Federal Reserve Board"
                                 ELSE "Web Search"],
     [i \in 1..(MaxLong + 1) |-> IF i % 2 = 1 THEN "SEC" ELSE "Web Search"]}

\* the urls of a long aggregate: all distinct, or every url twice
UrlPatterns ==
    {[i \in 1..(MaxLong + 1) |-> i], [i \in 1..(MaxLong + 1) |-> (i + 1) \div 2]}

LongLists ==
    {[i \in 1..n |-> LongResult(i, by_source, by_url)] :
        n \in 1..MaxLong, by_source \in SourcePatterns, by_url \in UrlPatterns}

\* generate_report and the raw results display are called on drawn params and
\* memories and an aggregate of up to MaxLong results
InitPrompt ==
    /\ RetrievalInit!2 /\ RetrievalInit!3 /\ RetrievalInit!4 /\ RetrievalInit!5
    /\ RetrievalInit!6 /\ RetrievalInit!7 /\ RetrievalInit!8 /\ RetrievalInit!9
    /\ KeyIdle
    /\ ExtractIdle
    /\ tpc = "Drawn"
    /\ user_message = Message(FALSE, {})
    /\ chat = <<>>
    /\ interactive = FALSE
    /\ steps = <<>>
    /\ tparams \in ReportParams
    /\ results_key = ParamsKey(tparams)
    /\ cached_searches \in
           {(results_key :> Aggregate(l)) : l \in LongLists}
    /\ memory_results \in ReportMemories
    /\ prompt = NoPrompt
    /\ completion = Stream(<<>>, FALSE)
    /\ fragments = <<>>
    /\ delivered = 0
    /\ streaming_content = <<>>
    /\ created = NoneCreated
    /\ nturns = 0
    /\ intent_reply = LLMNone
    /\ is_regulatory = TRUE
    /\ SessionIdle

\* the step was made already
Made(name) == \E i \in 1..Len(steps) : steps[i].name = name

\* generate_report(params, crawl_results, memory_results) up to the prompt
Report ==
    /\ tpc = "Drawn"
    /\ ~ Made("synthesize")
    /\ steps' = Append(steps, Step("synthesize", GenerateReportRaises(tparams)))
    /\ prompt' = IF GenerateReportRaises(tparams) THEN NoPrompt
                 ELSE generate_report(tparams, TurnAggregate, memory_results)
    /\ UNCHANGED <<retrievalVars, keyVars, extractVars, sessionVars, tpc, user_message, chat,
                   interactive, tparams, results_key, memory_results, completion,
                   fragments, delivered, streaming_content, created, nturns, intent_reply,
                   is_regulatory>>

\* lines 104-133 on crawl_results
Render ==
    /\ tpc = "Drawn"
    /\ ~ Made("display")
    /\ steps' = Append(steps, Step("display", FALSE))
    /\ LET out == Dedup(TurnAggregate.results)
       IN  /\ chat' = IF TurnAggregate.results = <<>> THEN chat
                      ELSE Append(chat, Msg("assistant", "raw_results", out.display))
           /\ cached_searches' = [cached_searches EXCEPT ![results_key].results = out.results]
    /\ UNCHANGED <<callVars, keyVars, extractVars, sessionVars, tpc, user_message, interactive, tparams,
                   results_key, memory_results, prompt, completion, fragments, delivered,
                   streaming_content, created, nturns, intent_reply,
                   is_regulatory>>

\* the synthesize steps made so far
Synthesized == Len(SelectSeq(steps, LAMBDA st : st.name = "synthesize"))

\* most calls of generate_report on one draw
MaxReports == 2

\* generate_report is called again with the params, aggregate and memories of
\* the call before, other calls of the turn having run or not in between
ReportAgain ==
    /\ tpc = "Drawn"
    /\ Made("synthesize")
    /\ Synthesized < MaxReports
    /\ steps' = Append(steps, Step("synthesize", GenerateReportRaises(tparams)))
    /\ prompt' = IF GenerateReportRaises(tparams) THEN NoPrompt
                 ELSE generate_report(tparams, TurnAggregate, memory_results)
    /\ UNCHANGED <<retrievalVars, keyVars, extractVars, sessionVars, tpc, user_message, chat,
                   interactive, tparams, results_key, memory_results, completion,
                   fragments, delivered, streaming_content, created, nturns, intent_reply,
                   is_regulatory>>

NextReport == Report \/ Render

NextTwice == Report \/ Render \/ ReportAgain

\* turn after turn of one listener, the services answering in every way
NextTurn ==
    \/ threads = {} /\ Start(TurnMessages, {"s1"}, {"user-3f2a"})
    \/ Classify(ClassifyOutcomes)
    \/ Extract(TurnReplies)
    \/ Process(TurnCrawls, TurnSearches, MemoryOutcomes)
    \/ ShowRaw
    \/ ShowMemory
    \/ Generating
    \/ BeginReport(TurnStreams)
    \/ BeginGeneral(TurnStreams)
    \/ NextChunk
    \/ GeneralEnd
    \/ Complete
    \/ Persist
    \/ SaveThread({Raise})

\* the replies of the stream specification: the intent is regulatory or not,
\* the extraction gives a complete object
StreamIntents == {Completes(Yes), Completes(No)}

StreamReplies == {JsonText(TurnObject(JStr("EU"), JStr("quick")))}

\* one turn, the completion stream sending every list of chunks and failing or
\* not after them
NextStream ==
    \/ nturns = 0 /\ Start(TurnMessages, {"s1"}, {"user-3f2a"})
    \/ Classify(StreamIntents)
    \/ Extract(StreamReplies)
    \/ Process(TurnCrawls, TurnSearches, MemoryOutcomes)
    \/ ShowRaw
    \/ ShowMemory
    \/ Generating
    \/ BeginReport(Streams(MaxChunks))
    \/ BeginGeneral(Streams(MaxChunks))
    \/ NextChunk
    \/ GeneralEnd
    \/ Complete
    \/ Persist
    \/ SaveThread(AddOutcomes)

\* one message is classified, the completion service answering in every way
NextIntent ==
    \/ nturns = 0 /\ Start({Message(FALSE, {})}, {"s1"}, {"user-3f2a"})
    \/ Classify(IntentOutcomes)

\* the messages of the tool hint specification: every set of these words of the
\* two lists, the quick word making the fallback of the extraction differ
HintMessages ==
    {Message(FALSE, ws) : ws \in SUBSET {"latest", "history", "previous", "quick"}}

HintReplies == {Prose, JsonText(TurnObject(JStr("EU"), JStr("summary")))}

\* regulatory turns up to the results count, each stopped there or before
NextHint ==
    \/ Start(HintMessages, {"s1"}, {"user-3f2a"})
    \/ Classify({Completes(Yes)})
    \/ Extract(HintReplies)
    \/ Process(TurnCrawls, TurnSearches, MemoryOutcomes)
    \/ StopTurn

\* the draws of the session specification
SessionMessages == {Message(TRUE, {}), Message(FALSE, {"history"})}

SessionMemories == {Raise, Returns(<<PastQuery>>)}

SessionCrawls == {[i \in 1..SourceLimit |-> Returns(<<GoodPage>>)]}

SessionSearches == {Returns(<<GoodHit>>)}

SessionStreams == {Stream(<<Delta(<<"a">>), Delta(<<"b", "c">>)>>, FALSE)}

\* the steps of the running turn
TurnSteps ==
    \/ Classify(StreamIntents)
    \/ Extract(StreamReplies)
    \/ Process(SessionCrawls, SessionSearches, SessionMemories)
    \/ ShowRaw
    \/ ShowMemory
    \/ Generating
    \/ BeginReport(SessionStreams)
    \/ BeginGeneral(SessionStreams)
    \/ NextChunk
    \/ GeneralEnd
    \/ Complete
    \/ Persist

\* turns of two browser sessions, one turn at a time, with Stop and Clear; the
\* save threads run beside the turns and may never end
NextSession ==
    \/ Start(SessionMessages, Sessions, UserIds)
    \/ TurnSteps
    \/ SaveThread(AddOutcomes)
    \/ StopTurn
    \/ delayed_clear

\* turns of one browser session, one after the other, with Stop and Clear
NextStop ==
    \/ Start(SessionMessages, {"s1"}, {"user-3f2a"})
    \/ TurnSteps
    \/ SaveThread(AddOutcomes)
    \/ StopTurn
    \/ delayed_clear

\* concurrent turns on the shared WebTools
Next ==
    \E t \in Turns :
        \/ Submit(t, Queries)
        \/ Stop(t)
        \/ Lookup(t)
        \/ HitReturn(t)
        \/ Crawl(t, CrawlOutcomes)
        \/ Search(t, SearchOutcomes)
        \/ Store(t)
        \/ Finish(t)

\* no retrieval is under way
AllIdle == \A t \in Turns : pc[t] = "Idle"

\* one turn after the other on the shared WebTools
NextSeq ==
    \E t \in Turns :
        \/ AllIdle /\ Submit(t, Queries)
        \/ Stop(t)
        \/ Lookup(t)
        \/ HitReturn(t)
        \/ Crawl(t, CrawlOutcomes)
        \/ Search(t, SearchOutcomes)
        \/ Store(t)
        \/ Finish(t)

\* one retrieval on a fresh WebTools, the service answering in every way
NextFill ==
    \E t \in Turns :
        \/ ncalls = 0 /\ Submit(t, FillQueries)
        \/ Stop(t)
        \/ Lookup(t)
        \/ Crawl(t, Responses(CrawlItems, MaxItems))
        \/ Search(t, Responses(SearchItems, 1))
        \/ Store(t)
        \/ Finish(t)

\* the general search fails or gives one hit
SearchOrFail == {Raise, Returns(<<GoodHit>>)}

\* one turn after the other, every call of a retrieval failing or not
NextRetry ==
    \E t \in Turns :
        \/ AllIdle /\ Submit(t, Queries)
        \/ Lookup(t)
        \/ HitReturn(t)
        \/ Crawl(t, CrawlOutcomes)
        \/ Search(t, SearchOrFail)
        \/ Store(t)
        \/ Finish(t)

\* no listener is inside a retrieval that can go on
NoneRunning == \A t \in Turns : pc[t] \in {"Idle", "Blocked"}

\* one turn after the other, a crawl call failing, returning or never returning
NextSlow ==
    \E t \in Turns :
        \/ NoneRunning /\ Submit(t, Queries)
        \/ Lookup(t)
        \/ HitReturn(t)
        \/ Crawl(t, CrawlOutcomes)
        \/ CrawlHangs(t)
        \/ Search(t, SearchOutcomes)
        \/ Store(t)
        \/ Finish(t)

Init == RetrievalInit /\ KeyIdle /\ ExtractIdle /\ TurnIdle /\ SessionIdle

vars == <<retrievalVars, keyVars, extractVars, turnVars, sessionVars>>

Spec == Init /\ [][Next]_vars

SpecSeq == Init /\ [][NextSeq]_vars

SpecFill == Init /\ [][NextFill]_vars

\* the input box of one session over turns that end, are stopped or cleared
SpecStop == Init /\ [][NextStop]_vars

\* retrievals one after the other whose calls may all fail
SpecRetry == Init /\ [][NextRetry]_vars

\* generate_cache_key on every drawn tuple and every one-field change of it
InitKey == RetrievalInit /\ KeyInit /\ ExtractIdle /\ TurnIdle /\ SessionIdle

SpecKey == InitKey /\ [][Fingerprint]_vars

\* generate_cache_key on every pair of drawn tuples
InitPair == RetrievalInit /\ KeyPairInit /\ ExtractIdle /\ TurnIdle /\ SessionIdle

SpecPair == InitPair /\ [][FingerprintBoth]_vars

\* extract_parameters on every drawn message and reply
InitExtract == RetrievalInit /\ KeyIdle /\ ExtractInit /\ TurnIdle /\ SessionIdle

SpecExtract == InitExtract /\ [][extract_parameters]_vars

SpecTurn == Init /\ [][NextTurn]_vars

\* the caller keeps pulling updates from the generator until it is exhausted
SpecTurnFair == Init /\ [][NextTurn]_vars /\ WF_vars(NextTurn)

\* generate_report and the raw results display on every drawn input
SpecReport == InitReport /\ [][NextReport]_vars

\* generate_report called more than once on one draw
SpecTwice == InitReport /\ [][NextTwice]_vars

\* generate_report and lines 104-133 on aggregates longer than the prompt takes
SpecPrompt == InitPrompt /\ [][NextReport]_vars

\* one turn with every completion stream, the caller pulling updates to the end
SpecStream == Init /\ [][NextStream]_vars /\ WF_vars(NextStream)

\* the listener goes on with a retrieval whenever it can
SpecSlow == Init /\ [][NextSlow]_vars /\ WF_vars(NextSlow)

\* determine_intended_tool and process_regulatory_query on every drawn message
SpecHint == Init /\ [][NextHint]_vars

\* is_regulatory_query on every drawn reply
SpecIntent == Init /\ [][NextIntent]_vars /\ WF_vars(NextIntent)

\* the caller pulls the updates of a turn until it ends or is stopped; nothing
\* makes a save thread end
SpecSession == Init /\ [][NextSession]_vars /\ WF_vars(TurnSteps)

\* ------------------------------------------------------------------------
\* Properties of the retrieval cache
\* ------------------------------------------------------------------------

\* the retrievals that returned with the params of turn t
EarlierSame(t) == {h \in history : h.params = params[t]}

\* C1: when a retrieval returns whose (industry, region, keywords) equals that
\* of a retrieval that returned before, it has issued no crawl call and no
\* search call, and its aggregate is the one every such earlier retrieval returned
C1_RepeatServedFromCache ==
    [][\A t \in Turns :
          (pc[t] # "Found" /\ pc'[t] = "Found" /\ EarlierSame(t) # {})
              => /\ calls'[t] = <<>>
                 /\ \A h \in EarlierSame(t) : crawl_results'[t] = h.aggregate]_vars

\* a retrieval repeats the params of one that returned and has taken the hit branch
C1_Witness ==
    \E t \in Turns : pc[t] = "Hit" /\ EarlierSame(t) # {} /\ calls[t] = <<>>

\* what the logged call contributed, computed from its response alone
RECURSIVE FormattedPages(_, _, _)
FormattedPages(source_name, url, items) ==
    IF items = <<>> \/ Head(items).raw_content = NoneBody THEN <<>>
    ELSE <<[source |-> source_name, url |-> Head(items).url,
            title |-> Head(items).title,
            content |-> IF Head(items).raw_content.len > 1500
                        THEN Body(Head(items).raw_content.text, 1500)
                        ELSE Head(items).raw_content]>>
         \o FormattedPages(source_name, url, Tail(items))

FormattedHits(items) ==
    [i \in 1..Len(items) |->
        [source |-> "Web Search", url |-> items[i].url, title |-> items[i].title,
         content |-> items[i].content]]

Contribution(call) ==
    IF call.resp.raised THEN <<>>
    ELSE IF call.kind = "crawl"
         THEN FormattedPages(call.source, call.url, call.resp.results)
         ELSE FormattedHits(call.resp.results)

RECURSIVE Contributions(_)
Contributions(log) ==
    IF log = <<>> THEN <<>> ELSE Contribution(Head(log)) \o Contributions(Tail(log))

\* the log of a fill that ran every crawl step of the turn's catalog and the search
RanToEnd(t) ==
    /\ Len(calls[t]) = Len(Sources(t)) + 1
    /\ \A i \in 1..Len(Sources(t)) :
          calls[t][i].kind = "crawl" /\ calls[t][i].source = Sources(t)[i].name
    /\ calls[t][Len(calls[t])].kind = "search"

\* C4: every write of the cache table, under concurrent turns and with Stop at
\* the updates a turn can be cancelled at, puts under a fingerprint the complete
\* aggregate of one fill for that fingerprint that ran all of its crawl steps and
\* its search to the end; nothing else adds or changes an entry
C4_AllOrNothingFill ==
    [][\A k \in DOMAIN cached_searches' :
          (k \notin DOMAIN cached_searches \/ cached_searches'[k] # cached_searches[k])
              => \E t \in Turns :
                    /\ pc[t] = "Store"
                    /\ CacheKey(t) = k
                    /\ RanToEnd(t)
                    /\ cached_searches'[k].results = Contributions(calls[t])
                    /\ cached_searches'[k].total_found = Len(Contributions(calls[t]))]_vars

\* a fill is about to store under a fingerprint that a concurrent fill with
\* another outcome has filled already
C4_Witness ==
    \E t \in Turns :
        /\ pc[t] = "Store"
        /\ CacheKey(t) \in DOMAIN cached_searches
        /\ cached_searches[CacheKey(t)].results # all_results[t]

\* C5: the entry of a fingerprint is assigned at most once: no step replaces an
\* entry that is there
C5_WriteOnce ==
    [][\A k \in DOMAIN cached_searches :
          k \in DOMAIN cached_searches' /\ cached_searches'[k] = cached_searches[k]]_vars


\* ------------------------------------------------------------------------
\* Properties of one cache-miss retrieval
\* ------------------------------------------------------------------------

\* the turn's retrieval has returned from a cache miss
Filled(t) == pc[t] = "Found" /\ calls[t] # <<>>

\* the call failed: the service call raised, or _get_crawl_results raised while
\* it processed an item of the response
Failed(call) ==
    \/ call.resp.raised
    \/ /\ call.kind = "crawl"
       /\ \E i \in 1..Len(call.resp.results) : call.resp.results[i].raw_content = NoneBody

\* the results of the calls of the log that succeeded, in call order
RECURSIVE ResultsOfSucceeded(_)
ResultsOfSucceeded(log) ==
    IF log = <<>> THEN <<>>
    ELSE (IF Failed(Head(log)) THEN <<>> ELSE Contribution(Head(log)))
         \o ResultsOfSucceeded(Tail(log))

\* C6: whatever subset of the crawl calls and the search call fails on a cache
\* miss, every call is attempted, the aggregate returned holds the results of
\* the calls that succeeded and total_found is their number
C6_PartialFailureResilience ==
    \A t \in Turns :
        Filled(t) =>
            /\ RanToEnd(t)
            /\ crawl_results[t].results = ResultsOfSucceeded(calls[t])
            /\ crawl_results[t].total_found = Len(ResultsOfSucceeded(calls[t]))

\* C7: a catalog source whose crawl fails, in the call or at any item of the
\* response, has no result in the aggregate
C7_FailedSourceContributesNothing ==
    \A t \in Turns :
        Filled(t) =>
            \A i \in 1..Len(calls[t]) :
                (calls[t][i].kind = "crawl" /\ Failed(calls[t][i]))
                    => \A j \in 1..Len(crawl_results[t].results) :
                          crawl_results[t].results[j].source # calls[t][i].source

\* the (source name, url) pairs of the crawl calls the turn has issued, in call order
Crawled(t) ==
    LET log == SelectSeq(calls[t], LAMBDA c : c.kind = "crawl")
    IN  [i \in 1..Len(log) |-> <<log[i].source, log[i].url>>]

\* the first 3 entries of the US catalog
FirstThreeOfUS ==
    << <<"SEC", "sec.gov">>,
       <<"Federal Register", "federalregister.gov">>,
       <<"Federal Reserve Board", "federalreserve.gov">> >>

\* C8: once the crawl loop of a cache-miss retrieval is through, a retrieval for
\* a region that is no key of REGULATORY_SOURCES has crawled the first 3 entries
\* of the US catalog in catalog order, as a retrieval for region US has
C8_UnknownRegionUsesUS ==
    \A t \in Turns :
        (/\ pc[t] \in {"Search", "Store"} \/ Filled(t)
         /\ params[t].region \in {US, eu, Atlantis})
            => Crawled(t) = FirstThreeOfUS

\* a retrieval for region Atlantis has returned from a cache miss
C8_Witness ==
    \E t \in Turns : Filled(t) /\ params[t].region = Atlantis /\ Len(Crawled(t)) = 3

\* the catalog entries a miss for the region crawls: the first min(3, size)
CatalogHead(region) ==
    LET catalog == UrlsToCrawl(region)
        n == IF Len(catalog) < 3 THEN Len(catalog) ELSE 3
    IN  [i \in 1..n |-> <<catalog[i].name, catalog[i].url>>]

\* the urls of the items of a response up to the first that cannot be processed
RECURSIVE Processed(_)
Processed(items) ==
    IF items = <<>> \/ Head(items).raw_content = NoneBody THEN <<>>
    ELSE <<Head(items).url>> \o Processed(Tail(items))

\* the (tag, url) pairs the call gives the aggregate: a crawl tags its items
\* with its source name, the search with "Web Search"
Tagged(call) ==
    IF call.resp.raised THEN <<>>
    ELSE IF call.kind = "crawl"
         THEN LET urls == Processed(call.resp.results)
              IN  [i \in 1..Len(urls) |-> <<call.source, urls[i]>>]
         ELSE [i \in 1..Len(call.resp.results) |-> <<"Web Search", call.resp.results[i].url>>]

RECURSIVE TaggedAll(_)
TaggedAll(log) ==
    IF log = <<>> THEN <<>> ELSE Tagged(Head(log)) \o TaggedAll(Tail(log))

\* C28: a retrieval that returns from a cache miss has issued one crawl for
\* each of the first min(3, size) entries of the catalog of its region, in
\* catalog order, then exactly one general search; its aggregate lists what
\* those calls gave in call order, the items of one call in the order of the
\* response, each crawl item tagged with the source name of its call and each
\* search item tagged "Web Search"
C28_CallOrderAndTags ==
    \A t \in Turns :
        Filled(t) =>
            /\ Crawled(t) = CatalogHead(params[t].region)
            /\ Len(calls[t]) = Len(Crawled(t)) + 1
            /\ calls[t][Len(calls[t])].kind = "search"
            /\ [i \in 1..Len(crawl_results[t].results) |->
                    <<crawl_results[t].results[i].source,
                      crawl_results[t].results[i].url>>] = TaggedAll(calls[t])

\* a miss for Japan, whose catalog has two entries, has returned: the first
\* source gave two pages, the second one, and the search one hit
C28_Witness ==
    \E t \in Turns :
        /\ Filled(t)
        /\ params[t].region = Japan
        /\ [i \in 1..Len(crawl_results[t].results) |-> crawl_results[t].results[i].source]
              = <<"MIC", "MIC", "Japan AI Principles", "Web Search">>


\* the retrieval of the turn was served from the cache table
ServedFromCache(t) == pc[t] = "Found" /\ calls[t] = <<>>

\* the names of the catalog entries the region of the turn's query selects
OwnCatalog(t) ==
    LET catalog == UrlsToCrawl(params[t].region)
    IN  {catalog[i].name : i \in 1..Len(catalog)}

\* C37: a retrieval that is served from the cache returns an aggregate whose
\* crawl results come from the catalog that the region of its own query
\* selects (the US catalog for a region that is no key), also when the entry
\* was filled by a query that differs from it in letter case only
C37_HitFromOwnCatalog ==
    \A t \in Turns :
        ServedFromCache(t) =>
            \A i \in 1..Len(crawl_results[t].results) :
                \/ crawl_results[t].results[i].source = "Web Search"
                \/ crawl_results[t].results[i].source \in OwnCatalog(t)

\* the aggregate without results
EmptyAggregate == [results |-> <<>>, total_found |-> 0]

\* every call of the log raised
AllFailed(log) == log # <<>> /\ \A i \in 1..Len(log) : log[i].resp.raised

\* the cache table holds the empty aggregate under the fingerprint of the turn
FailureCached(t) ==
    /\ CacheKey(t) \in DOMAIN cached_searches
    /\ cached_searches[CacheKey(t)] = EmptyAggregate

\* C39: a cache-miss retrieval whose crawl calls and search call all fail
\* stores the empty aggregate under its fingerprint; the entry stays as it is;
\* and a later retrieval for that fingerprint takes the hit branch and returns
\* the empty aggregate without a crawl or search call
C39_FailuresAreCached ==
    /\ [][\A t \in Turns :
             (pc[t] = "Store" /\ pc'[t] = "Found" /\ AllFailed(calls[t]))
                 => /\ FailureCached(t)'
                    /\ crawl_results'[t] = EmptyAggregate]_vars
    /\ [][\A t \in Turns : FailureCached(t) /\ params'[t] = params[t] => FailureCached(t)']_vars
    /\ [][\A t \in Turns :
             (pc[t] = "ToolStatus" /\ pc'[t] # pc[t] /\ FailureCached(t))
                 => pc'[t] = "Hit" /\ calls'[t] = <<>>]_vars
    /\ [][\A t \in Turns :
             (pc[t] = "Hit" /\ pc'[t] = "Found" /\ FailureCached(t))
                 => crawl_results'[t] = EmptyAggregate /\ calls'[t] = <<>>]_vars

\* a retrieval was served the empty aggregate that an earlier retrieval for
\* its fingerprint stored when all its calls had failed
C39_Witness ==
    \E t \in Turns :
        /\ ServedFromCache(t)
        /\ crawl_results[t] = EmptyAggregate
        /\ \E h \in history :
              h.aggregate = EmptyAggregate /\ h.params = params[t]

\* C19: every result of every aggregate that a retrieval returns or the cache
\* table holds, from a crawl or from the general search, has a content of at
\* most 1500 characters
C19_ExcerptBounded ==
    /\ \A t \in Turns :
          pc[t] = "Found" =>
              \A i \in 1..Len(crawl_results[t].results) :
                  crawl_results[t].results[i].content.len <= 1500
    /\ \A k \in DOMAIN cached_searches :
          \A i \in 1..Len(cached_searches[k].results) :
              cached_searches[k].results[i].content.len <= 1500

\* C26: a retrieval in which one crawl call never returns still issues the
\* crawl calls of the sources after it and the general search, and returns
C26_SlowSourceDoesNotStall ==
    \A t \in Turns :
        (pc[t] = "Blocked") ~>
            (pc[t] = "Found" /\ Len(calls[t]) >= Len(Sources(t)))

\* ------------------------------------------------------------------------
\* Properties of generate_cache_key
\* ------------------------------------------------------------------------

\* the two tuples have the same lowercase form, field by field: each field of
\* one is the other's with the case of letters changed
TuplesSameLowercase ==
    /\ Lower(tuple1.industry) = Lower(tuple2.industry)
    /\ Lower(tuple1.region) = Lower(tuple2.region)
    /\ Lower(tuple1.keywords) = Lower(tuple2.keywords)

\* the two tuples are equal under case folding, field by field
TuplesEqualIgnoringCase ==
    /\ EqualIgnoringCase(tuple1.industry, tuple2.industry)
    /\ EqualIgnoringCase(tuple1.region, tuple2.region)
    /\ EqualIgnoringCase(tuple1.keywords, tuple2.keywords)

\* C2: two tuples that are equal case-insensitively have the same fingerprint
C2_CaseInsensitiveKey ==
    (kpc = "hashed" /\ TuplesSameLowercase) => key1 = key2

\* C3 as stated: a field changed to any value that differs from the old one
\* changes the text that is hashed, and with it the fingerprint
C3_AnyChangeChangesKey ==
    (kpc = "hashed" /\ tuple2 # tuple1) => key1 # key2

\* C3 as amended: a field changed to a value that differs from the old one by
\* more than letter case changes the text that is hashed, and with it the fingerprint
C3_ChangeBeyondCaseChangesKey ==
    (kpc = "hashed" /\ ~ TuplesEqualIgnoringCase) => key1 # key2

\* the region went from US to the empty text and the fingerprints differ
C3_Witness ==
    /\ kpc = "hashed"
    /\ tuple1.region = US
    /\ tuple2.region = <<>>
    /\ key1 # key2

\* C38: two tuples that differ case-insensitively in at least one field have
\* different key texts and with them different fingerprints, whatever the
\* fields hold, the separator ':' included
C38_KeyInjective ==
    (kpc = "hashed" /\ ~ TuplesEqualIgnoringCase) => key1 # key2

\* ------------------------------------------------------------------------
\* Properties of extract_parameters
\* ------------------------------------------------------------------------

\* C9: extract_parameters never raises and returns industry, region, keywords
\* and report_type, none of them null, whatever the completion call gives
C9_AlwaysCompleteQuery ==
    epc = "done" =>
        /\ ~ extracted.raised
        /\ \A k \in ParamKeys :
              /\ k \in DOMAIN extracted.params.fields
              /\ extracted.params.fields[k] # JNull

\* the reply is the JSON of a dict whose report_type is absent, null or no
\* one of quick, summary, full
ReplyHasOtherReportType ==
    /\ response.kind = "json"
    /\ response.value.type = "object"
    /\ \/ "report_type" \notin DOMAIN response.value.fields
       \/ response.value.fields["report_type"] \notin
              {JStr("quick"), JStr("summary"), JStr("full")}

\* C10: whenever extract_parameters returns, report_type is one of quick,
\* summary, full, and it is full where the reply had another value or none
C10_ReportTypeNormalized ==
    (epc = "done" /\ ~ extracted.raised) =>
        /\ "report_type" \in DOMAIN extracted.params.fields
        /\ extracted.params.fields["report_type"] \in
               {JStr("quick"), JStr("summary"), JStr("full")}
        /\ ReplyHasOtherReportType => extracted.params.fields["report_type"] = JStr("full")

\* the reply said "Quick" and the call returned full
C10_Witness ==
    /\ epc = "done"
    /\ response.kind = "json"
    /\ response.value.type = "object"
    /\ "report_type" \in DOMAIN response.value.fields
    /\ response.value.fields["report_type"] = JStr("Quick")
    /\ ~ extracted.raised
    /\ extracted.params.fields["report_type"] = JStr("full")

\* the completion call failed: call_llm returned the apology of its except clause
CallErrored == response.kind = "apology"

\* the reply is no JSON text
ReplyNotJson == response.kind \in {"none", "prose"}

\* the reply is the JSON of a dict without industry, region or keywords
ReplyOmitsRequired ==
    /\ response.kind = "json"
    /\ response.value.type = "object"
    /\ ~ ({"industry", "region", "keywords"} \subseteq DOMAIN response.value.fields)

\* the call returned the params of the rule-based fallback for the message
TookFallback ==
    /\ ~ extracted.raised
    /\ ParamKeys \subseteq DOMAIN extracted.params.fields
    /\ extracted.params.fields["industry"] = JStr("General")
    /\ extracted.params.fields["region"] = JStr("US")
    /\ extracted.params.fields["keywords"] = JStr("")
    /\ extracted.params.fields["report_type"] \in {JStr("quick"), JStr("summary"), JStr("full")}

\* C29: extract_parameters returns the params of the rule-based fallback when
\* the completion call errors, when the reply is no JSON, and when the reply is
\* JSON that omits one or more of industry, region, keywords
C29_FallbackInEveryTriggerCase ==
    (epc = "done" /\ (CallErrored \/ ReplyNotJson \/ ReplyOmitsRequired)) => TookFallback

\* the call has returned from its except clause
OnFallbackPath == epc = "done" /\ (CallErrored \/ ReplyNotJson)

\* the report_type the call returned
ReturnedReportType == extracted.params.fields["report_type"].val

HasQuickPhrase == message \cap QuickWords # {}

HasSummaryWord == message \cap SummaryWords # {}

HasReportWord == message \cap ReportWords # {}

\* C30 as stated: on the fallback path report_type is quick whenever the
\* message has a fact or detail phrase, with or without "report" or "summary"
\* beside it, summary when it asks for a summary, and full otherwise
C30_QuickPhraseDecidesFirst ==
    OnFallbackPath =>
        ReturnedReportType = IF HasQuickPhrase THEN "quick"
                             ELSE IF HasSummaryWord THEN "summary"
                             ELSE "full"

\* C30 as amended: on the fallback path report_type is summary whenever the
\* message has a summary word; else full whenever it has a report word; else
\* quick when it has a fact or detail phrase; and full otherwise
C30_ExplicitRequestDecidesFirst ==
    OnFallbackPath =>
        ReturnedReportType = IF HasSummaryWord THEN "summary"
                             ELSE IF HasReportWord THEN "full"
                             ELSE IF HasQuickPhrase THEN "quick"
                             ELSE "full"

\* the message has "quick" and "report" and no summary word, the reply was no
\* JSON, and the call returned full
C30_Witness ==
    /\ OnFallbackPath
    /\ message = {"quick", "report"}
    /\ ReturnedReportType = "full"

\* C31: on the fallback path region is the region token found in the message
\* and US only when none is found, and industry is the industry whose keyword
\* the message has and General only when none matches: a message with the
\* token EU, as "What are the new data privacy rules in the EU?", yields EU
C31_FallbackReadsRegionAndIndustry ==
    OnFallbackPath =>
        /\ extracted.params.fields["region"] =
               IF "eu" \in message THEN JStr("EU") ELSE JStr("US")
        /\ extracted.params.fields["industry"] =
               IF "fintech" \in message THEN JStr("fintech") ELSE JStr("General")

\* ------------------------------------------------------------------------
\* Properties of a turn of streaming_chatbot
\* ------------------------------------------------------------------------

\* the names of the steps of the log that are among the given names, in log order
StepNames(log, names) ==
    LET picked == SelectSeq(log, LAMBDA st : st.name \in names)
    IN  [i \in 1..Len(picked) |-> picked[i].name]

\* the steps of a regulatory turn in their order
TurnOrder == <<"classify", "extract", "retrieve", "memory", "synthesize", "persist">>

\* how many of them are behind the turn at each of its updates
StepsBehind ==
    [at \in {"ToolDetect", "ToolStatus", "Found", "RawShown", "MemoryShown", "Generating",
             "ReportStream", "Complete", "Done"} |->
        CASE at = "ToolDetect" -> 1
          [] at = "ToolStatus" -> 2
          [] at \in {"Found", "RawShown", "MemoryShown", "Generating"} -> 4
          [] at \in {"ReportStream", "Complete"} -> 5
          [] at = "Done" -> 6]

\* the main steps the turn has made so far
MainSteps == StepNames(steps, {TurnOrder[i] : i \in 1..Len(TurnOrder)})

\* C11: at every update of a regulatory turn the steps made so far are the
\* first ones of classify, extract, retrieve, memory lookup, synthesize, persist
\* in this order, none made twice: two at the tool status (one classification,
\* one extraction, also on the fallback path), four once the results are found
\* (one retrieval, then one memory lookup, whether the aggregate is empty or not
\* or came from the cache), all six when the turn is done; a turn that an
\* exception ends has made a prefix of them
C11_FixedStepOrder ==
    /\ tpc \in DOMAIN StepsBehind => MainSteps = SubSeq(TurnOrder, 1, StepsBehind[tpc])
    /\ tpc = "Escaped" =>
           \E n \in 0..Len(TurnOrder) : MainSteps = SubSeq(TurnOrder, 1, n)

\* a turn is done whose extraction took the fallback path and whose retrieval
\* was served from the cache
C11_Witness ==
    /\ tpc = "Done"
    /\ tparams.fields["industry"] = JStr("General")
    /\ StepNames(steps, {"crawl", "search"}) = <<>>

\* the updates of the general branch
GeneralStates == {"GeneralStatus", "GeneralStream", "GeneralDone"}

\* C12: every step that leaves a turn in the general branch leaves the cache
\* table as it was; such a turn has called the classification and the reply
\* stream and nothing else (no extraction, crawl, search, memory lookup or
\* persist), the prompt of its stream is the raw message, and its last update
\* shows the streamed reply and enables the input
C12_GeneralTurnFrame ==
    [][tpc' \in GeneralStates =>
          /\ cached_searches' = cached_searches
          /\ \A i \in 1..Len(steps') : steps'[i].name \in {"classify", "reply"}
          /\ memory_results' = <<>>
          /\ created' = NoneCreated
          /\ tpc' \in {"GeneralStream", "GeneralDone"} =>
                 /\ prompt'.kind = "message"
                 /\ prompt'.fields = user_message'
          /\ tpc' = "GeneralDone" =>
                 /\ interactive'
                 /\ chat'[Len(chat')] = Msg("assistant", "reply", streaming_content')]_vars

\* a general turn has ended with a reply after a regulatory turn filled the cache
C12_Witness ==
    /\ tpc = "GeneralDone"
    /\ streaming_content # <<>>
    /\ DOMAIN cached_searches # {}

\* C13: no exception leaves streaming_chatbot, and a turn that has disabled the
\* input goes on, whatever the services reply, to the update that enables it
C13_NoStateFatal ==
    /\ [](tpc # "Escaped")
    /\ (tpc = "Disabled") ~> (tpc \in {"GeneralDone", "Complete"})

\* the updates of the two for loops over the fragments
StreamStates == {"GeneralStream", "ReportStream"}

\* the texts of the chunks of the turn's stream that carry text, in stream order
ChunkTexts ==
    LET sent == SelectSeq(completion.deltas, LAMBDA d : ~ d.none /\ Len(d.text) > 0)
    IN  [i \in 1..Len(sent) |-> sent[i].text]

\* the completion service failed in this turn, at the call or after some chunks
StreamFailed == tpc \in StreamStates /\ completion.fails

\* C14: when the completion service fails at the call or between chunks, the
\* fragments of the stream are the texts already sent followed by one error
\* fragment, which is the last one and the only one, and the turn goes on to
\* the update that enables the input
C14_ErrorIsLastFragment ==
    /\ [](StreamFailed =>
             /\ Len(fragments) = Len(ChunkTexts) + 1
             /\ \A i \in 1..Len(ChunkTexts) : fragments[i] = ChunkTexts[i]
             /\ fragments[Len(fragments)] = ErrorFragment
             /\ \A i \in 1..(Len(fragments) - 1) : fragments[i] # ErrorFragment)
    /\ StreamFailed ~> (tpc \in {"GeneralDone", "Complete"} /\ interactive)

\* a report stream failed after it sent two chunks with text, and the turn
\* has enabled the input after the error fragment
C14_Witness ==
    /\ tpc = "Complete"
    /\ completion.fails
    /\ Len(ChunkTexts) = 2
    /\ delivered = 3
    /\ interactive

\* the fragments of the turn's stream in generation order: the texts of the
\* chunks, and the error fragment after them when the service failed
Generated ==
    ChunkTexts \o (IF completion.fails THEN <<ErrorFragment>> ELSE <<>>)

\* the concatenation of the first k texts of a list
RECURSIVE ConcatFirst(_, _)
ConcatFirst(texts, k) ==
    IF k = 0 THEN <<>> ELSE ConcatFirst(texts, k - 1) \o texts[k]

\* the reply on display: the last entry of history while it is streamed and
\* when the general branch ends, the entry before the completion notice after
\* the report
DisplayedReply ==
    IF tpc \in {"Complete", "Done"} THEN chat[Len(chat) - 1] ELSE chat[Len(chat)]

\* C16: after the k-th pass of the loop the reply on display is the
\* concatenation of the first k generated fragments; when the turn enables the
\* input it is the concatenation of all of them, the error fragment included,
\* and that text is the response handed to save_to_memory
C16_FragmentsInOrder ==
    (tpc \in StreamStates \cup {"GeneralDone", "Complete", "Done"}) =>
        /\ delivered <= Len(Generated)
        /\ DisplayedReply = Msg("assistant", "reply", ConcatFirst(Generated, delivered))
        /\ tpc \notin StreamStates => delivered = Len(Generated)
        /\ tpc = "Done" =>
               created.handed =
                   <<MemoryRecord(user_message, ConcatFirst(Generated, Len(Generated)))>>

\* a report of two fragments and the error fragment was handed to save_to_memory
C16_Witness ==
    /\ tpc = "Done"
    /\ delivered = 3
    /\ created.handed =
           <<MemoryRecord(user_message, <<"a", "b", "c">> \o ErrorFragment)>>

\* C18: no step of a turn changes an entry that is in the cache table: the
\* results count update, the raw results display with its removal of duplicate
\* urls, the memory display, the report, the persist and the cache hit of a
\* later turn all leave its result list, the fields of its results and
\* total_found as they were stored, although the turn works on the stored
\* object itself
C18_EntryImmutable ==
    [][\A k \in DOMAIN cached_searches :
          /\ k \in DOMAIN cached_searches'
          /\ cached_searches'[k].results = cached_searches[k].results
          /\ cached_searches'[k].total_found = cached_searches[k].total_found
          /\ cached_searches'[k].total_found = Len(cached_searches'[k].results)]_vars

\* a later turn was served the stored aggregate, showed fewer entries than it
\* has results, and ran to its end
C18_Witness ==
    /\ tpc = "Done"
    /\ nturns > 1
    /\ StepNames(steps, {"crawl", "search"}) = <<>>
    /\ \E i \in 1..Len(chat) :
          /\ chat[i].kind = "raw_results"
          /\ Len(chat[i].content) < Len(TurnAggregate.results)

\* C36: every entry of cached_searches, and with it every aggregate a
\* retrieval returns, has total_found equal to the number of its results; the
\* count the status of the turn shows as found is that number, the size of the
\* aggregate before the display drops repeated urls, and it is still that
\* number when the raw results are shown
C36_TotalFoundIsSize ==
    /\ [](\A k \in DOMAIN cached_searches :
             cached_searches[k].total_found = Len(cached_searches[k].results))
    /\ [][(tpc = "ToolStatus" /\ tpc' = "Found") =>
             /\ chat'[Len(chat')].kind = "tool_status"
             /\ chat'[Len(chat')].content.found = Len(TurnAggregate'.results)]_vars
    /\ [][(tpc = "Found" /\ tpc' = "RawShown") =>
             /\ chat'[Len(chat)] = chat[Len(chat)]
             /\ chat'[Len(chat)].content.found = Len(TurnAggregate'.results)]_vars

\* the second source failed: the status shows the 4 results of the two other
\* sources and the search, where a retrieval without failure has 5, and the
\* raw results show the 2 distinct urls among them
C36_Witness ==
    /\ tpc = "RawShown"
    /\ chat[Len(chat) - 1].kind = "tool_status"
    /\ chat[Len(chat) - 1].content.found = 4
    /\ Len(TurnAggregate.results) = 4
    /\ TurnAggregate.results[2].source # "Web Search"
    /\ TurnAggregate.results[3].source = "Web Search"
    /\ Len(chat[Len(chat)].content) = 2

\* the call of the turn with this name failed
FailedStep(name) == \E i \in 1..Len(steps) : steps[i].name = name /\ steps[i].failed

\* C20: a memory search that fails gives the turn the empty list and no
\* exception: the turn goes on, shows no memories and sends the prompt it sends
\* without memories; a memory add that fails adds nothing and raises nothing:
\* the step after the enabling update starts the thread and ends the turn, and
\* the thread whose add is refused ends and leaves the store, what was streamed
\* and the enabled input as they were
C20_MemoryErrorsSuppressed ==
    [][/\ FailedStep("memory")' =>
             /\ memory_results' = <<>>
             /\ tpc' \in {"Found", "RawShown", "Generating", "ReportStream", "Complete", "Done"}
             /\ \A i \in 1..Len(chat') : chat'[i].kind # "memories"
             /\ Made("synthesize")' => prompt'.memory_context = <<>>
       /\ (tpc = "Complete" /\ tpc' # "Complete") =>
             /\ tpc' = "Done"
             /\ chat' = chat
             /\ streaming_content' = streaming_content
             /\ interactive' = TRUE
       /\ (threads' # threads /\ threads' \subseteq threads) =>
             /\ memory_store' = memory_store
             /\ tpc' = tpc
             /\ chat' = chat
             /\ streaming_content' = streaming_content
             /\ interactive' = interactive]_vars

\* a turn whose memory search failed has streamed its report and is done, and
\* its thread has ended on an add that failed
C20_Witness ==
    /\ tpc = "Done"
    /\ FailedStep("memory")
    /\ created.handed # <<>>
    /\ threads = {}
    /\ memory_store = {}
    /\ Len(streaming_content) > 0
    /\ interactive

\* ------------------------------------------------------------------------
\* Properties of the intent test
\* ------------------------------------------------------------------------

\* the first character of the text that is no whitespace is a y or a Y
LeadingY(text) ==
    \E i \in 1..Len(text) :
        /\ text[i] \in {"y", "Y"}
        /\ \A j \in 1..(i - 1) : text[j] \in Whitespace

\* the intent call has returned a text and the turn has taken its branch
Classified == tpc \in {"ToolDetect", "GeneralStatus"}

\* C24: is_regulatory_query is true exactly when the first character of the
\* reply that is no whitespace is y in either case, and the turn takes the
\* regulatory branch exactly then; the empty reply, a reply of whitespace, a
\* negative reply and the apology call_llm returns when the service raises
\* all give false and the general branch
C24_AffirmativeIffLeadingY ==
    Classified =>
        /\ is_regulatory <=> LeadingY(intent_reply.text)
        /\ (tpc = "ToolDetect") <=> is_regulatory
        /\ (Strip(intent_reply.text) = <<>> \/ intent_reply \in {No, LLMText(ApologyText)}
            \/ FailedStep("classify")) => tpc = "GeneralStatus"

\* a reply that starts with whitespace and a capital Y took the regulatory
\* branch
C24_Witness ==
    /\ tpc = "ToolDetect"
    /\ intent_reply = LLMText(<<"\n", " ", "Y">>)
    /\ is_regulatory

\* the intent call of the turn is behind it, and the service raised or gave a
\* completion without content
ClassificationError ==
    Made("classify") /\ (FailedStep("classify") \/ intent_reply = LLMNone)

\* C25: a turn whose intent call failed or returned no content is in the
\* general branch from then on, and goes on to the last update of that
\* branch, which enables the input
C25_ClassificationErrorGoesGeneral ==
    /\ [](ClassificationError => tpc \in GeneralStates)
    /\ ClassificationError ~> (tpc = "GeneralDone" /\ interactive)

\* the tool name the status of the turn shows
ShownTool == chat[Len(chat)].content.tool

\* the tool name the claim gives for the words a message contains
HintFor(phrases) ==
    IF phrases \cap {"crawl", "scan", "check", "latest", "update", "recent"} # {}
    THEN "Regulatory Web Crawler"
    ELSE IF phrases \cap {"remember", "history", "past", "previous"} # {}
    THEN "Memory Search"
    ELSE "Regulatory Search"

\* the names of the calls process_regulatory_query makes on a hit and on a miss
CallsOnHit == <<"retrieve", "memory">>

CallsOnMiss == <<"retrieve", "crawl", "crawl", "crawl", "search", "memory">>

\* the names of the steps of a log after its first n
NamesAfter(log, n) == [i \in 1..(Len(log) - n) |-> log[n + i].name]

\* C27: the tool name shown is the web crawler when the message contains a
\* crawler word, else the memory search when it contains a memory word, else
\* the generic search; and whatever name is shown, process_regulatory_query
\* makes the same calls: the retrieval for the params of the turn, with three
\* crawls and the search on a miss and none on a hit, then the memory lookup
\* under the user id of the turn, and the entry of the params is in the cache
C27_ToolIsDisplayHintOnly ==
    /\ [](tpc \in {"ToolDetect", "ToolStatus", "Found"} =>
             ShownTool = HintFor(user_message.phrases))
    /\ [][(tpc = "ToolStatus" /\ tpc' = "Found") =>
             /\ NamesAfter(steps', Len(steps)) =
                    IF ParamsKey(tparams) \in DOMAIN cached_searches
                    THEN CallsOnHit ELSE CallsOnMiss
             /\ ParamsKey(tparams) \in DOMAIN cached_searches'
             /\ results_key' = ParamsKey(tparams)
             /\ MemorySearch(session, user_id) \in lookups'
             /\ ShownTool' = ShownTool]_vars

\* the status names the memory search for a message with a memory word, and
\* the turn has crawled the three sources, searched and looked up the memory
C27_Witness ==
    /\ tpc = "Found"
    /\ ShownTool = "Memory Search"
    /\ NamesAfter(steps, 2) = CallsOnMiss
    /\ TurnAggregate.total_found > 0

\* ------------------------------------------------------------------------
\* Properties of the save thread, the memory store and the session's user id
\* ------------------------------------------------------------------------

\* the save threads of the latest turn that have not ended
PendingSaves == {th \in threads : th.turn = nturns}

\* the records the store holds of the latest turn
StoredOfTurn == {r \in memory_store : r.turn = nturns}

\* a save thread ends in this step
ThreadEnds == threads' # threads /\ threads' \subseteq threads

\* C21: the update that enables the input is delivered before the save is
\* started: at that update the turn has no thread and the store no record of
\* it; the turn then ends whether or not any thread ever ends; while a thread
\* of the turn is pending the next turn can start; and a thread that ends, by a
\* record added or by an add that failed, changes nothing of the turn
C21_PersistFireAndForget ==
    /\ [](tpc = "Complete" => (interactive /\ PendingSaves = {} /\ StoredOfTurn = {}))
    /\ (tpc = "Complete") ~> (tpc \in {"Done", "Stopped"})
    /\ []((PendingSaves # {} /\ nturns < MaxTurns) =>
             ENABLED Start(SessionMessages, Sessions, UserIds))
    /\ [][ThreadEnds => UNCHANGED <<turnVars, user_id_state, session, user_id>>]_vars

\* the next turn has been started and has run to its end while the save thread
\* of the turn before it has not ended
C21_Witness ==
    /\ tpc = "Done"
    /\ nturns = 2
    /\ \E th \in threads : th.turn = 1
    /\ PendingSaves # {}
    /\ interactive

\* the record of the latest turn: its message and all that was streamed
TurnRecord == MemoryRecord(user_message, ConcatFirst(Generated, Len(Generated)))

\* C22 as claimed: once the latest turn is over and no save of it is pending,
\* the store holds exactly one record of it, with its message and full
\* response, if the turn got the update that enables the input after its
\* report, and none if it was general, blank or stopped before that update
C22_OneRecordPerCompletedTurn ==
    (tpc \in TurnOver /\ nturns > 0 /\ PendingSaves = {}) =>
        IF is_regulatory /\ interactive /\ chat # <<>> /\ chat[Len(chat)].kind = "complete"
        THEN StoredOfTurn = {Stored(Thread(nturns, session, user_id, <<>>, <<>>), TurnRecord)}
        ELSE StoredOfTurn = {}

\* C22 as the code has it: a regulatory turn that runs to its end, past the
\* update that enables the input, has started exactly one save, with its
\* message and full response; in every other state of a turn, also when it
\* was stopped, is general or blank, no save of it was started and the store
\* has no record of it; threads are started by that step alone, one at a time;
\* a thread that ends adds the one record it was handed, or nothing
C22_OneSavePerCompletedTurn ==
    /\ [](IF tpc = "Done"
          THEN /\ created.handed = <<TurnRecord>>
               /\ Cardinality(PendingSaves) + Cardinality(StoredOfTurn) <= 1
               /\ PendingSaves \subseteq
                      {Thread(nturns, session, user_id, user_message, TurnRecord.response)}
               /\ StoredOfTurn \subseteq
                      {Stored(Thread(nturns, session, user_id, <<>>, <<>>), TurnRecord)}
          ELSE /\ created = NoneCreated
               /\ PendingSaves = {}
               /\ StoredOfTurn = {})
    /\ [][/\ ~ (threads' \subseteq threads) =>
               /\ tpc = "Complete" /\ tpc' = "Done"
               /\ Cardinality(threads' \ threads) = 1
               /\ memory_store' = memory_store
          /\ ThreadEnds =>
               \E th \in threads \ threads' :
                  /\ threads' = threads \ {th}
                  /\ memory_store \subseteq memory_store'
                  /\ memory_store' \ memory_store \subseteq
                         {Stored(th, MemoryRecord(th.query, th.response))}
          /\ (threads' = threads) => memory_store' = memory_store]_vars

\* the save of a turn that ran to its end was accepted: the store holds the
\* record with the message and the full response under the turn's user id
C22_Witness ==
    /\ tpc = "Done"
    /\ PendingSaves = {}
    /\ StoredOfTurn = {Stored(Thread(nturns, session, user_id, <<>>, <<>>), TurnRecord)}
    /\ TurnRecord.response = <<"a", "b", "c">>

\* the session and user id of every memory search issued and of every save
\* started, pending or stored
MemoryUses ==
    lookups
    \cup {MemorySearch(th.session, th.user_id) : th \in threads}
    \cup {MemorySearch(r.session, r.user_id) : r \in memory_store}

\* C23: every memory search and every save of a session was issued with the
\* user id the session state holds, which is therefore the id of the session's
\* first message with text in all its later turns and after Clear, and no two
\* sessions use the store under the same user id
C23_MemoryScopedBySession ==
    /\ \A use \in MemoryUses : use.user_id = user_id_state[use.session]
    /\ \A a \in MemoryUses, b \in MemoryUses :
          a.user_id = b.user_id => a.session = b.session

\* no turn is running and none was left by an exception: none was started,
\* the blank message returned, a branch gave its last update and ended, or
\* Stop cancelled the turn between two updates
NoTurnRunning == tpc \in {"Idle", "Returned", "GeneralDone", "Done", "Stopped"}

\* C40: whenever no turn is running the input box is interactive, however
\* the last turn ended: by the last update of the general or the regulatory
\* branch, by the return for a blank message, or by Stop
C40_InputEnabledBetweenTurns == NoTurnRunning => interactive

\* ------------------------------------------------------------------------
\* Properties of generate_report and of the raw results display
\* ------------------------------------------------------------------------

\* C15: for an aggregate without results generate_report does not raise and
\* builds the no-results guidance prompt, which has none of the five report
\* sections, whether report_type is quick, summary, full, another value or absent
C15_EmptyAggregateGuidance ==
    (Made("synthesize") /\ Len(TurnAggregate.results) = 0) =>
        /\ \A i \in 1..Len(steps) : ~ steps[i].failed
        /\ prompt.kind = "guidance"
        /\ prompt.sections = 0

\* the prompt for an empty aggregate and a report_type that is a number is
\* the guidance prompt
C15_Witness ==
    /\ Made("synthesize")
    /\ Len(TurnAggregate.results) = 0
    /\ "report_type" \in DOMAIN tparams.fields
    /\ tparams.fields["report_type"] = JNum
    /\ prompt.kind = "guidance"

\* the raw results display of the turn, empty when none was put on history
RawDisplay ==
    IF \E i \in 1..Len(chat) : chat[i].kind = "raw_results"
    THEN chat[CHOOSE i \in 1..Len(chat) : chat[i].kind = "raw_results"].content
    ELSE <<>>

\* where the url first appears in the results of the aggregate
FirstAt(url) ==
    CHOOSE i \in 1..Len(TurnAggregate.results) :
        /\ TurnAggregate.results[i].url = url
        /\ \A j \in 1..(i - 1) : TurnAggregate.results[j].url # url

\* the distinct urls of the aggregate
DistinctUrls ==
    {TurnAggregate.results[i].url : i \in 1..Len(TurnAggregate.results)}

\* C17: the raw results display has one entry for each distinct url of the
\* aggregate and no other entry, the entries are numbered 1, 2, ... and stand
\* in the order in which their urls first appear in the aggregate, each with
\* the source of that first appearance
C17_DisplayOnePerUrl ==
    Made("display") =>
        /\ Len(RawDisplay) = Cardinality(DistinctUrls)
        /\ {RawDisplay[j].url : j \in 1..Len(RawDisplay)} = DistinctUrls
        /\ \A j \in 1..Len(RawDisplay) :
              /\ RawDisplay[j].count = j
              /\ RawDisplay[j].source = TurnAggregate.results[FirstAt(RawDisplay[j].url)].source
        /\ \A j, k \in 1..Len(RawDisplay) :
              j < k => FirstAt(RawDisplay[j].url) < FirstAt(RawDisplay[k].url)

\* an aggregate of three results on two urls, the second url appearing first
\* and the first one twice, is shown as two entries
C17_Witness ==
    /\ Made("display")
    /\ Len(TurnAggregate.results) = 3
    /\ TurnAggregate.results[1].url = "hit"
    /\ TurnAggregate.results[2].url = "page"
    /\ TurnAggregate.results[3].url = "page"
    /\ Len(RawDisplay) = 2
    /\ RawDisplay[2].url = "page"

\* the entry shows the placeholder of the display in place of a title
ShowsNoTitle(entry) == entry.title = Body("No Title", 8)

\* the entry is labeled with the human-readable name of its source
ShowsSourceName(entry) ==
    entry.title = Body(FullName(entry.source), TitleLen(FullName(entry.source)))

\* the results of the aggregate whose title the service gave empty or not at
\* all: a crawl result that carries the name of its source as title, a search
\* result whose title is empty
Untitled(result) ==
    \/ result.title \in {None, ""}
    \/ result.source # "Web Search" /\ result.title = FullName(result.source)

\* C32: every entry of the raw results display that stands for a result
\* without title, from a catalog crawl or from the general search, is labeled
\* with the human-readable name of its source, and no entry shows the
\* placeholder
C32_UntitledShowSourceName ==
    Made("display") =>
        \A j \in 1..Len(RawDisplay) :
            /\ ~ ShowsNoTitle(RawDisplay[j])
            /\ Untitled(TurnAggregate.results[FirstAt(RawDisplay[j].url)])
                  => ShowsSourceName(RawDisplay[j])

\* generate_report has built a prompt
Prompted == Made("synthesize") /\ prompt # NoPrompt

\* the text of a memory record as the prompt quotes it
QuotedMemory(mem) == IF "memory" \in DOMAIN mem THEN mem.memory ELSE <<"N", "/", "A">>

\* the prompt carries the first 3 memory records, in lookup order, as context
HasPastQueries ==
    LET n == IF Len(memory_results) < 3 THEN Len(memory_results) ELSE 3
    IN  /\ Len(prompt.memory_context) = n
        /\ \A i \in 1..n :
              /\ prompt.memory_context[i].count = i
              /\ prompt.memory_context[i].text = QuotedMemory(memory_results[i])

\* C33: whenever memory records are present, the prompt generate_report sends
\* carries the first 3 of them, at most 3 and in lookup order, as the context
\* of related past queries, in every branch, the branch of the empty
\* aggregate included
C33_MemoryContextInEveryBranch ==
    (Prompted /\ memory_results # <<>>) => HasPastQueries

\* the first min(8, N) results of the aggregate
PromptHead ==
    SubSeq(TurnAggregate.results, 1,
           IF Len(TurnAggregate.results) < 8 THEN Len(TurnAggregate.results) ELSE 8)

\* where the source first appears among those results
FirstOfSource(source) ==
    CHOOSE i \in 1..Len(PromptHead) :
        /\ PromptHead[i].source = source
        /\ \A j \in 1..(i - 1) : PromptHead[j].source # source

\* the report_type generate_report is given, None when params has none
GivenReportType ==
    IF "report_type" \in DOMAIN tparams.fields THEN tparams.fields["report_type"] ELSE JNull

\* C34: for an aggregate with results, the data of the prompt is the first
\* min(8, N) results of the aggregate as the retrieval returned them, grouped
\* by source name: one group for each source among them, the groups in the
\* order in which their sources first appear, each group holding the results
\* of its source in aggregate order; and the prompt is the quick prompt iff
\* report_type is quick, the summary prompt iff it is summary, and the full
\* prompt with its five sections for full, for no report_type and for any
\* other value
C34_PromptDataAndMode ==
    (Prompted /\ TurnAggregate.results # <<>>) =>
        /\ {prompt.data[g].source : g \in 1..Len(prompt.data)} =
               {PromptHead[i].source : i \in 1..Len(PromptHead)}
        /\ \A g \in 1..Len(prompt.data) :
              prompt.data[g].results =
                  SelectSeq(PromptHead, LAMBDA r : r.source = prompt.data[g].source)
        /\ \A g, h \in 1..Len(prompt.data) :
              g < h => FirstOfSource(prompt.data[g].source) < FirstOfSource(prompt.data[h].source)
        /\ prompt.kind = (IF GivenReportType = JStr("quick") THEN "quick"
                          ELSE IF GivenReportType = JStr("summary") THEN "summary"
                          ELSE "full")
        /\ prompt.kind = "full" => prompt.sections = 5

\* an aggregate of 10 results, each url twice, was shown and then given to
\* generate_report with a report_type that is none of the three: the full
\* prompt has the first 8 in four groups, the search with its first result alone
C34_Witness ==
    /\ Prompted
    /\ Made("display")
    /\ steps[1].name = "display"
    /\ Len(TurnAggregate.results) = 10
    /\ TurnAggregate.results[2].url = TurnAggregate.results[1].url
    /\ GivenReportType = JStr("detailed")
    /\ prompt.kind = "full"
    /\ Len(prompt.data) = 4
    /\ prompt.data[4].source = "Web Search"
    /\ Len(prompt.data[4].results) = 1
    /\ prompt.data[4].results[1] = TurnAggregate.results[8]

====
